---------------------------- MODULE Spec2Model ----------------------------
(***************************************************************************)
(* The address manager of azure-container-networking (package ipam):       *)
(* address spaces, pools and records, the epoch-based merge of a fresh     *)
(* snapshot into the live address space, and the request/release           *)
(* protocols for pools and addresses (src/ipam/pool.go), driven by the     *)
(* snapshots the Azure source publishes (src/ipam/azure.go).               *)
(*                                                                         *)
(* A net.IP is the integer value of its last byte inside 10.0.0.0/24; its   *)
(* string form is the key of addressPool.Addresses.  A pointer to an       *)
(* addressRecord is a handle <<address string, n>> into the pool's record   *)
(* heap `recs`, so that addrsByID and Addresses can alias or diverge        *)
(* exactly as the two Go maps of pointers can.                             *)
(***************************************************************************)
EXTENDS Integers, FiniteSets, Sequences, TLC

VARIABLES
    AddrSpaces,   \* addressManager.AddrSpaces: space id -> addressSpace
    last,         \* the operation that returned without an error last
    source,       \* the azureSource of the manager: lastRefresh, queryInterval
    now,          \* time.Now(), in seconds
    pc            \* where the thread in setAddressSpace is: "idle" outside
                  \* of merge, "cleanup" between the two loops of merge

vars == <<AddrSpaces, last, source, now, pc>>

---------------------------------------------------------------------------
(* Bounds of the model.                                                    *)

\* Merges stop advancing the epoch of a space beyond MaxEpoch.
MaxEpoch == 2
\* requestPool stops taking references on a pool beyond MaxRefCount.
MaxRefCount == 1

---------------------------------------------------------------------------
(* Program constants.                                                      *)

LocalDefaultAddressSpaceId == "local"
LocalScope == 0
GlobalScope == 1
\* The host id of the default gateway inside a subnet (::1).
defaultGatewayHostId == 1
OptAddressTypeGateway == "com.docker.network.gateway"

errAddressPoolExists == "errAddressPoolExists"
errAddressPoolNotFound == "errAddressPoolNotFound"
errAddressPoolNotInUse == "errAddressPoolNotInUse"
errNoAvailableAddressPools == "errNoAvailableAddressPools"
errInvalidPoolId == "errInvalidPoolId"
errInvalidAddress == "errInvalidAddress"
errAddressExists == "errAddressExists"
errAddressNotFound == "errAddressNotFound"
errAddressInUse == "errAddressInUse"
errAddressNotInUse == "errAddressNotInUse"
errNoAvailableAddresses == "errNoAvailableAddresses"
\* A nil error, and the outcome of dereferencing a nil pointer.
nil == "nil"
panic == "panic"

---------------------------------------------------------------------------
(* The universe the inputs are drawn from.                                 *)

\* The subnets of the model: prefix string -> first address, number of
\* addresses and prefix length.
\*   10.0.0.0/29 and 10.0.0.8/29 are the subnets the fabric reports,
\*   10.0.0.16/30 is the subnet of the overlay network,
\*   10.0.0.20/31 and 10.0.0.22/32 are subnets of fewer than four addresses.
Cidrs ==
    [s \in {"10.0.0.0/29", "10.0.0.8/29", "10.0.0.16/30", "10.0.0.20/31", "10.0.0.22/32"} |->
        CASE s = "10.0.0.0/29"  -> [IP |-> 0,  Size |-> 8, Ones |-> 29]
          [] s = "10.0.0.8/29"  -> [IP |-> 8,  Size |-> 8, Ones |-> 29]
          [] s = "10.0.0.16/30" -> [IP |-> 16, Size |-> 4, Ones |-> 30]
          [] s = "10.0.0.20/31" -> [IP |-> 20, Size |-> 2, Ones |-> 31]
          [] s = "10.0.0.22/32" -> [IP |-> 22, Size |-> 1, Ones |-> 32]]

FabricPrefixes == {"10.0.0.0/29", "10.0.0.8/29"}
OverlayPrefix == "10.0.0.16/30"

\* The non-primary addresses the fabric may list for a subnet; the second
\* subnet carries only the primary address of the host.
FabricAddrs(prefix) ==
    IF prefix = "10.0.0.0/29" THEN {"10.0.0.2", "10.0.0.3"} ELSE {}

\* The interface the fabric reports a subnet on, and whether it is primary.
FabricIfName(prefix) == IF prefix = "10.0.0.0/29" THEN "eth0" ELSE "eth1"
FabricIsPrimary(prefix) == prefix = "10.0.0.0/29"

\* Reservation ids of clients; the empty id is "".
Ids == {"x", "y"}
NetworkNames == {"n"}

EmptyMap == <<>>

Range(f) == {f[k] : k \in DOMAIN f}
Restrict(f, S) == [k \in S |-> f[k]]

---------------------------------------------------------------------------
(* net.IP and net.IPNet                                                    *)

\* The addresses of the model, as the value of the last byte.
IPs == 0..31

\* net.IP.String, tabulated over the addresses of the model.
IPStrings == [ip \in IPs |-> "10.0.0." \o ToString(ip)]
String(ip) == IPStrings[ip]

\* The nil net.IP, which net.ParseIP returns for a string it cannot parse.
NilIP == -1

\* net.ParseIP: the address a string denotes, or the nil address.
ParseIP(str) ==
    IF \E ip \in IPs : String(ip) = str
    THEN CHOOSE ip \in IPs : String(ip) = str
    ELSE NilIP

\* net.ParseCIDR: the address and the network of a prefix string, or an error.
ParseCIDR(str) ==
    IF str \in DOMAIN Cidrs
    THEN [ok |-> TRUE, ip |-> Cidrs[str].IP, ipnet |-> str]
    ELSE [ok |-> FALSE]

\* Mutant of Contains: only the lower end of the subnet is looked at.
ContainsFrom(subnet, ip) == ip >= subnet.IP

\* net.IPNet.Contains: the address masked by the subnet's mask is its IP.
Contains(subnet, ip) == (ip \div subnet.Size) * subnet.Size = subnet.IP

\* platform.GenerateAddress(subnet, hostId): the host id inside the subnet.
GenerateAddress(subnet, hostId) == subnet.IP + hostId

---------------------------------------------------------------------------
(* addressRecord, addressPool, addressSpace                                *)

\* The record heap of a pool holds the records its two maps point to.
Collect(ap) ==
    [ap EXCEPT !.recs =
        Restrict(ap.recs, Range(ap.Addresses) \cup Range(ap.addrsByID))]

\* A handle for a record of address addr that no live record of ap bears.
NewHandle(ap, addr) ==
    <<addr, CHOOSE n \in 0..Cardinality(DOMAIN ap.recs) :
                /\ <<addr, n>> \notin DOMAIN ap.recs
                /\ \A m \in 0..(n - 1) : <<addr, m>> \in DOMAIN ap.recs>>

\* The record ap.Addresses[address] points to.
Rec(ap, address) == ap.recs[ap.Addresses[address]]

newAddressSpace(id, scope) == [Id |-> id, Scope |-> scope, Pools |-> EmptyMap, epoch |-> 0]

\* Mutant of newAddressPoolObject: the pool is born one epoch ahead.
newAddressPoolAhead(as, ifName, nwName, priority, prefix) ==
    [Id        |-> prefix \o nwName,
     IfName    |-> ifName,
     Subnet    |-> Cidrs[prefix],
     Gateway   |-> Cidrs[prefix].IP + defaultGatewayHostId,
     Addresses |-> EmptyMap,
     addrsByID |-> EmptyMap,
     recs      |-> EmptyMap,
     IsIPv6    |-> FALSE,
     Priority  |-> priority,
     RefCount  |-> 0,
     epoch     |-> as.epoch + 1]

\* The pool newAddressPool builds; the caller stores it in as.Pools.
newAddressPoolObject(as, ifName, nwName, priority, prefix) ==
    [Id        |-> prefix \o nwName,
     IfName    |-> ifName,
     Subnet    |-> Cidrs[prefix],
     Gateway   |-> GenerateAddress(Cidrs[prefix], defaultGatewayHostId),
     Addresses |-> EmptyMap,
     addrsByID |-> EmptyMap,
     recs      |-> EmptyMap,
     IsIPv6    |-> FALSE,
     Priority  |-> priority,
     RefCount  |-> 0,
     epoch     |-> as.epoch]

\* addressSpace.newAddressPool: the space afterwards, the pool and the error.
newAddressPool(as, ifName, nwName, priority, prefix) ==
    IF (prefix \o nwName) \in DOMAIN as.Pools
    THEN [as |-> as, ap |-> as.Pools[prefix \o nwName], err |-> errAddressPoolExists]
    ELSE LET addrPool == newAddressPoolObject(as, ifName, nwName, priority, prefix)
         IN  [as  |-> [as EXCEPT !.Pools = (addrPool.Id :> addrPool) @@ as.Pools],
              ap  |-> addrPool,
              err |-> nil]

\* addressPool.newAddressRecord: the pool afterwards and the error.
newAddressRecord(ap, addr) ==
    IF addr = NilIP \/ ~Contains(ap.Subnet, addr)
    THEN [ap |-> ap, err |-> errInvalidAddress]
    ELSE IF String(addr) \in DOMAIN ap.Addresses
    THEN [ap |-> ap, err |-> errAddressExists]
    ELSE LET id == String(addr)
             h  == NewHandle(ap, id)
             ar == [ID |-> "", Addr |-> addr, InUse |-> FALSE,
                    unhealthy |-> FALSE, epoch |-> ap.epoch]
         IN  [ap  |-> [ap EXCEPT !.Addresses = (id :> h) @@ ap.Addresses,
                                 !.recs = (h :> ar) @@ ap.recs],
              err |-> nil]

\* Mutant of isInUse: a pool without a reference counts as in use.
isInUseFromZero(ap) == ap.RefCount >= 0

isInUse(ap) == ap.RefCount > 0

---------------------------------------------------------------------------
(* azureSource.refresh: the snapshot built from the fabric's document      *)

\* A document lists, for some of the host's subnets, non-primary addresses.
Docs ==
    UNION {{d \in [S -> SUBSET UNION {FabricAddrs(q) : q \in FabricPrefixes}] :
                \A q \in S : d[q] \subseteq FabricAddrs(q)} :
           S \in SUBSET FabricPrefixes}

\* net.Interfaces(): the interfaces of the host, in the order of enumeration.
Interfaces ==
    <<[Name |-> "eth0", HardwareAddr |-> <<"0", "a", ":", "0", "1">>],
      [Name |-> "eth1", HardwareAddr |-> <<"0", "a", ":", "0", "2">>]>>

\* The document that carries listing d: one interface per subnet, with the
\* MAC address of the host's interface for it, the subnet with the host's
\* own address, marked primary, and then the addresses d lists for it.
Document(d) ==
    LET hw(q) == Interfaces[CHOOSE k \in DOMAIN Interfaces :
                                Interfaces[k].Name = FabricIfName(q)].HardwareAddr
        hex(c) == c # ":"
        own(q) == String(Cidrs[q].IP + 4)
        listed(q, a) == a \in d[q]
        entry(a) == [Address |-> a, IsPrimary |-> FALSE]
        addrs(q) == <<[Address |-> own(q), IsPrimary |-> TRUE]>>
                    \o [i \in 1..Len(SelectSeq(<<"10.0.0.2", "10.0.0.3">>, LAMBDA a : listed(q, a))) |->
                          entry(SelectSeq(<<"10.0.0.2", "10.0.0.3">>, LAMBDA a : listed(q, a))[i])]
        iface(q) == [MacAddress |-> SelectSeq(hw(q), hex),
                     IsPrimary  |-> FabricIsPrimary(q),
                     IPSubnet   |-> <<[Prefix |-> q, IPAddress |-> addrs(q)]>>]
        order == SelectSeq(<<"10.0.0.0/29", "10.0.0.8/29">>, LAMBDA q : q \in DOMAIN d)
    IN  [Interface |-> [i \in 1..Len(order) |-> iface(order[i])]]

\* Lines 125-142: the name of the first interface of the host that document
\* interface i matches, or "", and the priority of its pools.
findInterface(interfaces, i) ==
    LET ToLower(s) == [k \in DOMAIN s |-> IF s[k] = "A" THEN "a" ELSE s[k]]
        hex(c) == c # ":"
        mac == ToLower(i.MacAddress)
        found == {k \in DOMAIN interfaces :
                     \/ ToLower(SelectSeq(interfaces[k].HardwareAddr, hex)) = mac
                     \/ mac = <<"*">>}
    IN  IF found = {} THEN [ifName |-> "", priority |-> 0]
        ELSE [ifName   |-> interfaces[CHOOSE k \in found : \A m \in found : k <= m].Name,
              priority |-> IF i.IsPrimary THEN 0 ELSE 1]

\* Mutant of addRecords: the primary addresses get a record as well.
RECURSIVE addRecordsPrimaryToo(_, _)
addRecordsPrimaryToo(ap, addrs) ==
    IF addrs = <<>> THEN [ap |-> ap, err |-> nil]
    ELSE LET r == newAddressRecord(ap, ParseIP(Head(addrs).Address))
         IN  IF r.err # nil THEN r
             ELSE addRecordsPrimaryToo(r.ap, Tail(addrs))

\* Lines 162-174, the loop over the addresses of a subnet: a record for each
\* address that is not primary, until newAddressRecord fails.
RECURSIVE addRecords(_, _)
addRecords(ap, addrs) ==
    IF addrs = <<>> THEN [ap |-> ap, err |-> nil]
    ELSE IF Head(addrs).IsPrimary THEN addRecords(ap, Tail(addrs))
    ELSE LET r == newAddressRecord(ap, ParseIP(Head(addrs).Address))
         IN  IF r.err # nil THEN r
             ELSE addRecords(r.ap, Tail(addrs))

\* Lines 150-175, the loop over the subnets of a matched interface: a pool
\* for each, until ParseCIDR, newAddressPool or newAddressRecord fails.  An
\* error of newAddressPool other than errAddressExists ends the refresh.
RECURSIVE addSubnets(_, _, _, _)
addSubnets(local, ifName, priority, subnets) ==
    IF subnets = <<>> THEN [local |-> local, err |-> nil]
    ELSE IF ~ParseCIDR(Head(subnets).Prefix).ok
    THEN [local |-> local, err |-> "errParseCIDR"]
    ELSE LET p  == newAddressPool(local, ifName, "", priority,
                                  ParseCIDR(Head(subnets).Prefix).ipnet)
             a  == addRecords(p.ap, Head(subnets).IPAddress)
         IN  IF p.err # nil /\ p.err # errAddressExists
             THEN [local |-> p.as, err |-> p.err]
             ELSE IF a.err # nil
             THEN [local |-> [p.as EXCEPT !.Pools[a.ap.Id] = a.ap], err |-> a.err]
             ELSE addSubnets([p.as EXCEPT !.Pools[a.ap.Id] = a.ap],
                             ifName, priority, Tail(subnets))

\* Lines 124-176, the loop over the interfaces of the document.
RECURSIVE addPools(_, _, _)
addPools(local, interfaces, ifs) ==
    IF ifs = <<>> THEN [local |-> local, err |-> nil]
    ELSE LET f == findInterface(interfaces, Head(ifs))
             r == addSubnets(local, f.ifName, f.priority, Head(ifs).IPSubnet)
         IN  IF f.ifName = "" THEN addPools(local, interfaces, Tail(ifs))
             ELSE IF r.err # nil THEN r
             ELSE addPools(r.local, interfaces, Tail(ifs))

\* What the host and the fabric answer to a refresh: the error or the result
\* of net.Interfaces(), the error of http.Get, the error of decoding the
\* response, and the document decoded.
Answer(interfacesErr, getErr, decodeErr, doc) ==
    [interfacesErr |-> interfacesErr, interfaces |-> Interfaces,
     getErr |-> getErr, decodeErr |-> decodeErr, doc |-> doc]

\* azureSource.refresh by source s at time t, up to the call of
\* sink.setAddressSpace: the source afterwards, whether the call returned at
\* line 91 (skipped), whether it reached line 179 (publish) and the address
\* space it built by then, and the error it returns.
refresh(s, t, answer) ==
    LET s1    == [s EXCEPT !.lastRefresh = t]
        none  == newAddressSpace(LocalDefaultAddressSpaceId, LocalScope)
        built == addPools(none, answer.interfaces, answer.doc.Interface)
        stop(err) == [s |-> s1, skipped |-> FALSE, publish |-> FALSE,
                      local |-> none, err |-> err]
    IN  IF t - s.lastRefresh < s.queryInterval
        THEN [s |-> s, skipped |-> TRUE, publish |-> FALSE, local |-> none, err |-> nil]
        ELSE IF answer.interfacesErr # nil THEN stop(answer.interfacesErr)
        ELSE IF answer.getErr # nil THEN stop(answer.getErr)
        ELSE IF answer.decodeErr # nil THEN stop(answer.decodeErr)
        ELSE IF built.err # nil THEN stop(built.err)
        ELSE [s |-> s1, skipped |-> FALSE, publish |-> TRUE,
              local |-> built.local, err |-> nil]

\* The azureSource newAzureSource builds, with a query interval of two
\* seconds (options[OptIpamQueryInterval]); lastRefresh is the zero time.
queryInterval == 2
newAzureSource == [lastRefresh |-> 0, queryInterval |-> queryInterval]

\* The snapshots the source can publish: what a refresh that is not skipped
\* builds from the documents that carry the listings of Docs.
Snapshots ==
    {refresh(newAzureSource, queryInterval, Answer(nil, nil, nil, Document(d))).local :
        d \in Docs}

\* The <<pool id, address>> pairs a snapshot lists.
Listing(newas) ==
    UNION {{<<pk, ak>> : ak \in DOMAIN newas.Pools[pk].Addresses} :
           pk \in DOMAIN newas.Pools}

---------------------------------------------------------------------------
(* addressSpace.merge                                                      *)

\* Mutant of mergeRecords: a record the snapshot lists again stays unhealthy.
mergeRecordsKeepsUnhealthy(ap, pv, newEpoch) ==
    LET known == DOMAIN pv.Addresses \cap DOMAIN ap.Addresses
        fresh == DOMAIN pv.Addresses \ DOMAIN ap.Addresses
        hnew  == [ak \in fresh |-> NewHandle(ap, ak)]
        bumped == [h \in DOMAIN ap.recs |->
                     IF \E ak \in known : ap.Addresses[ak] = h
                     THEN [ap.recs[h] EXCEPT !.epoch = newEpoch]
                     ELSE ap.recs[h]]
        adopted == [h \in Range(hnew) |->
                     [pv.recs[pv.Addresses[h[1]]] EXCEPT !.epoch = newEpoch]]
    IN  [ap EXCEPT !.Addresses = hnew @@ ap.Addresses,
                   !.recs = adopted @@ bumped]

\* Lines 201-217: the records of snapshot pool pv merged into live pool ap.
mergeRecords(ap, pv, newEpoch) ==
    LET known == DOMAIN pv.Addresses \cap DOMAIN ap.Addresses
        fresh == DOMAIN pv.Addresses \ DOMAIN ap.Addresses
        hnew  == [ak \in fresh |-> NewHandle(ap, ak)]
        bumped == [h \in DOMAIN ap.recs |->
                     IF \E ak \in known : ap.Addresses[ak] = h
                     THEN [ap.recs[h] EXCEPT !.epoch = newEpoch, !.unhealthy = FALSE]
                     ELSE ap.recs[h]]
        adopted == [h \in Range(hnew) |->
                     [pv.recs[pv.Addresses[h[1]]] EXCEPT !.epoch = newEpoch]]
    IN  [ap EXCEPT !.Addresses = hnew @@ ap.Addresses,
                   !.recs = adopted @@ bumped]

\* Lines 185-223: one pool of the snapshot merged into the live space.
mergePool(as, pv, newEpoch) ==
    IF pv.Id \notin DOMAIN as.Pools
    THEN [pv EXCEPT !.epoch = newEpoch]
    ELSE mergeRecords(as.Pools[pv.Id], pv, newEpoch)

\* Mutant of usesNewEpoch: any pool the snapshot lists advances the epoch.
usesNewEpochAnyPool(as, pv) == pv.Id \in DOMAIN as.Pools \/ pv.Id \notin DOMAIN as.Pools

\* Whether the snapshot pool makes the merge use the new epoch.
usesNewEpoch(as, pv) ==
    \/ pv.Id \notin DOMAIN as.Pools
    \/ DOMAIN pv.Addresses # {}

\* Mutant of sweepRecord: a stale record is dropped even when it is in use.
sweepRecordEpochOnly(av, e) ==
    IF av.epoch = e THEN [keep |-> TRUE, rec |-> av]
    ELSE [keep |-> FALSE, rec |-> av]

\* Mutant of sweepRecord: a stale record in use is kept but not marked.
sweepRecordNoMark(av, e) ==
    IF av.epoch = e \/ av.InUse THEN [keep |-> TRUE, rec |-> av]
    ELSE [keep |-> FALSE, rec |-> av]

\* Mutant of sweepRecord: every stale record is kept and marked, in use or not.
sweepRecordMarksFree(av, e) ==
    IF av.epoch = e THEN [keep |-> TRUE, rec |-> av]
    ELSE [keep |-> TRUE, rec |-> [av EXCEPT !.unhealthy = TRUE]]

\* Lines 234-247: the records of a stale pool, swept at space epoch e.
sweepRecord(av, e) ==
    IF av.epoch = e THEN [keep |-> TRUE, rec |-> av]
    ELSE IF av.InUse THEN [keep |-> TRUE, rec |-> [av EXCEPT !.unhealthy = TRUE]]
    ELSE [keep |-> FALSE, rec |-> av]

\* Mutant of sweepPool: the pool keeps its epoch whatever records it keeps.
sweepPoolKeepsEpoch(pv, e) ==
    LET kept == {ak \in DOMAIN pv.Addresses : sweepRecord(Rec(pv, ak), e).keep}
        recs == [h \in DOMAIN pv.recs |->
                   IF \E ak \in kept : pv.Addresses[ak] = h
                   THEN sweepRecord(pv.recs[h], e).rec
                   ELSE pv.recs[h]]
    IN  Collect([pv EXCEPT !.Addresses = Restrict(pv.Addresses, kept),
                           !.recs = recs])

sweepPool(pv, e) ==
    LET kept == {ak \in DOMAIN pv.Addresses : sweepRecord(Rec(pv, ak), e).keep}
        recs == [h \in DOMAIN pv.recs |->
                   IF \E ak \in kept : pv.Addresses[ak] = h
                   THEN sweepRecord(pv.recs[h], e).rec
                   ELSE pv.recs[h]]
    IN  Collect([pv EXCEPT !.Addresses = Restrict(pv.Addresses, kept),
                           !.recs = recs,
                           !.epoch = IF kept # {} THEN e ELSE pv.epoch])

\* Mutant of sweepDeletes: the test of the reference count is inverted.
sweepDeletesReferenced(pv, e) == pv.epoch < e /\ isInUse(pv)

\* Line 250: a swept pool is deleted when nothing kept it at the epoch.
sweepDeletes(pv, e) == pv.epoch < e /\ ~isInUse(pv)

\* Lines 181-227 of merge, "Add new pools and addresses": the live space
\* after the pools and records of snapshot newas are merged into it.
mergeAdd(as, newas) ==
    LET newEpoch == as.epoch + 1
        usedNewEpoch == \E pk \in DOMAIN newas.Pools : usesNewEpoch(as, newas.Pools[pk])
        merged == [pk \in DOMAIN as.Pools \cup DOMAIN newas.Pools |->
                     IF pk \in DOMAIN newas.Pools
                     THEN mergePool(as, newas.Pools[pk], newEpoch)
                     ELSE as.Pools[pk]]
    IN  [as EXCEPT !.epoch = IF usedNewEpoch THEN newEpoch ELSE as.epoch,
                   !.Pools = merged]

\* Lines 229-256 of merge, "Cleanup stale pools and addresses from the old
\* epoch".
mergeCleanup(as) ==
    LET swept == [pk \in DOMAIN as.Pools |->
                     IF as.Pools[pk].epoch < as.epoch
                     THEN sweepPool(as.Pools[pk], as.epoch)
                     ELSE as.Pools[pk]]
        live == {pk \in DOMAIN swept :
                     ~(as.Pools[pk].epoch < as.epoch /\ sweepDeletes(swept[pk], as.epoch))}
    IN  [as EXCEPT !.Pools = Restrict(swept, live)]

\* addressSpace.merge: the live space after merging snapshot newas.
merge(as, newas) == mergeCleanup(mergeAdd(as, newas))

\* addressManager.setAddressSpace: the spaces after publishing snapshot newas.
setAddressSpace(spaces, newas) ==
    IF newas.Id \notin DOMAIN spaces
    THEN (newas.Id :> newas) @@ spaces
    ELSE [spaces EXCEPT ![newas.Id] = merge(spaces[newas.Id], newas)]

\* The outcomes of am.save(), the write of the manager's state to its store:
\* no error, or the error of the failed write.
SaveOutcomes == {nil, "errStoreWrite"}

\* addressManager.setAddressSpace as its caller sees it: the spaces
\* afterwards and the error returned, given the outcome saveErr of am.save().
\* Line 172 drops the result of am.save() and line 174 returns nil.
setAddressSpaceReturn(spaces, newas, saveErr) ==
    [spaces |-> setAddressSpace(spaces, newas), err |-> nil]

\* Lines 157-170: the calls of netApi.AddExternalInterface that
\* setAddressSpace makes for snapshot newas, one for each pool that newas
\* holds at line 167.  A snapshot that became the space holds its pools; a
\* snapshot that was merged holds none, since merge deletes every pool of
\* newas at line 222.
addExternalInterfaces(spaces, newas, netApi) ==
    LET as == IF newas.Id \notin DOMAIN spaces THEN newas
              ELSE [newas EXCEPT !.Pools = EmptyMap]
    IN  IF netApi = nil THEN {}
        ELSE {[pool |-> pk, IfName |-> as.Pools[pk].IfName, Subnet |-> as.Pools[pk].Subnet] :
                 pk \in DOMAIN as.Pools}

\* am.save(): the blob written to the store.  The manager serializes the
\* exported fields of every space, pool and record; of the structs at lines
\* 45-85 these are all but as, addrsByID, epoch and unhealthy.
save(spaces) ==
    LET record(ar) == [ID |-> ar.ID, Addr |-> ar.Addr, InUse |-> ar.InUse]
        pool(ap) == [Id |-> ap.Id, IfName |-> ap.IfName, Subnet |-> ap.Subnet,
                     Gateway |-> ap.Gateway,
                     Addresses |-> [ak \in DOMAIN ap.Addresses |-> record(Rec(ap, ak))],
                     IsIPv6 |-> ap.IsIPv6, Priority |-> ap.Priority,
                     RefCount |-> ap.RefCount]
        space(as) == [Id |-> as.Id, Scope |-> as.Scope,
                      Pools |-> [pk \in DOMAIN as.Pools |-> pool(as.Pools[pk])]]
    IN  [k \in DOMAIN spaces |-> space(spaces[k])]

\* The state the manager loads from the blob on restart: a field the blob
\* does not carry has the zero value of its type; every pool is given an
\* empty addrsByID and belongs to the space that holds it.
restore(blob) ==
    LET record(b) == [ID |-> b.ID, Addr |-> b.Addr, InUse |-> b.InUse,
                      unhealthy |-> FALSE, epoch |-> 0]
        pool(b) == [Id |-> b.Id, IfName |-> b.IfName, Subnet |-> b.Subnet,
                    Gateway |-> b.Gateway,
                    Addresses |-> [ak \in DOMAIN b.Addresses |-> <<ak, 0>>],
                    addrsByID |-> EmptyMap,
                    recs |-> [h \in {<<ak, 0>> : ak \in DOMAIN b.Addresses} |->
                                 record(b.Addresses[h[1]])],
                    IsIPv6 |-> b.IsIPv6, Priority |-> b.Priority,
                    RefCount |-> b.RefCount, epoch |-> 0]
        space(b) == [Id |-> b.Id, Scope |-> b.Scope,
                     Pools |-> [pk \in DOMAIN b.Pools |-> pool(b.Pools[pk])],
                     epoch |-> 0]
    IN  [k \in DOMAIN blob |-> space(blob[k])]

---------------------------------------------------------------------------
(* addressPool.requestAddress and addressPool.releaseAddress               *)

\* The options of an address request or release; a nil map reads as "".
AddressOptions(id, type) == [OptAddressID |-> id, OptAddressType |-> type]

\* The address in CIDR notation with the pool's mask (lines 584-590).
CidrString(ap, ip) == String(ip) \o "/" \o ToString(ap.Subnet.Ones)

\* Lines 577-590: the record at handle h is handed out under id.
assignRecord(ap, h, id) ==
    [ap  |-> [ap EXCEPT !.addrsByID = IF id # "" THEN (id :> h) @@ @ ELSE @,
                        !.recs[h].ID = id,
                        !.recs[h].InUse = TRUE],
     err |-> nil,
     ret |-> CidrString(ap, ap.recs[h].Addr)]

\* Mutant of addressInUse: only a request without an id is refused.
addressInUseEmptyIdOnly(ar, id) == ar.InUse /\ id = ""

\* Lines 545-550: a specific address that is in use is refused.
addressInUse(ar, id) == ar.InUse /\ (id = "" \/ id # ar.ID)

\* Mutant of availableRecords: the scan stops at a record that is in use too.
availableRecordsAny(ap) == Range(ap.Addresses)

\* Lines 563-570: the records a scan of ap.Addresses may stop at.
availableRecords(ap) == {h \in Range(ap.Addresses) : ~ap.recs[h].InUse}

\* addressPool.requestAddress: the possible outcomes, each the pool
\* afterwards, the error and the returned string.  The scan for a free
\* record ranges over a Go map, whose order is not defined.
requestAddress(ap, address, options) ==
    LET id == options.OptAddressID
        failed(e) == {[ap |-> ap, err |-> e, ret |-> ""]}
    IN  IF address # ""
        THEN IF address \notin DOMAIN ap.Addresses THEN failed(errAddressNotFound)
             ELSE IF addressInUse(Rec(ap, address), id) THEN failed(errAddressInUse)
             ELSE {assignRecord(ap, ap.Addresses[address], id)}
        ELSE IF options.OptAddressType = OptAddressTypeGateway
        THEN {[ap |-> ap, err |-> nil, ret |-> CidrString(ap, ap.Gateway)]}
        ELSE IF id # "" /\ id \in DOMAIN ap.addrsByID
        THEN {assignRecord(ap, ap.addrsByID[id], id)}
        ELSE IF availableRecords(ap) = {} THEN failed(errNoAvailableAddresses)
        ELSE {assignRecord(ap, h, id) : h \in availableRecords(ap)}

\* Lines 640-643: a released record is deleted when its epoch is stale.
releaseDeletes(ar, asEpoch) == ar.epoch < asEpoch

\* Mutant of freeRecord: the record released stays marked in use.
freeRecordKeepsInUse(ap, h, address, asEpoch) ==
    LET ar == ap.recs[h]
        released == [ap EXCEPT
            !.addrsByID = IF ar.ID # "" THEN Restrict(@, DOMAIN @ \ {ar.ID}) ELSE @,
            !.recs[h].ID = ""]
    IN  Collect(IF releaseDeletes(ar, asEpoch)
                THEN [released EXCEPT
                        !.Addresses = Restrict(@, DOMAIN @ \ {address})]
                ELSE released)

\* Mutant of freeRecord: the entry of addrsByID is left behind.
freeRecordKeepsIndex(ap, h, address, asEpoch) ==
    LET ar == ap.recs[h]
        released == [ap EXCEPT !.recs[h].ID = "", !.recs[h].InUse = FALSE]
    IN  Collect(IF releaseDeletes(ar, asEpoch)
                THEN [released EXCEPT
                        !.Addresses = Restrict(@, DOMAIN @ \ {address})]
                ELSE released)

\* Lines 633-645: the record at handle h, known under key address, released.
freeRecord(ap, h, address, asEpoch) ==
    LET ar == ap.recs[h]
        released == [ap EXCEPT
            !.addrsByID = IF ar.ID # "" THEN Restrict(@, DOMAIN @ \ {ar.ID}) ELSE @,
            !.recs[h].ID = "",
            !.recs[h].InUse = FALSE]
    IN  Collect(IF releaseDeletes(ar, asEpoch)
                THEN [released EXCEPT
                        !.Addresses = Restrict(@, DOMAIN @ \ {address})]
                ELSE released)

\* Mutant of releaseAddress: a record is released under the id of its holder
\* only.
releaseAddressOwnedOnly(ap, asEpoch, address, options) ==
    LET id == options.OptAddressID
        byAddress == address # ""
        byId == address = "" /\ id # ""
        found == \/ byAddress /\ address \in DOMAIN ap.Addresses
                 \/ byId /\ id \in DOMAIN ap.addrsByID
        h == IF byAddress THEN ap.Addresses[address] ELSE ap.addrsByID[id]
        key == IF byAddress THEN address ELSE String(ap.recs[h].Addr)
    IN  IF byAddress /\ ~found /\ address = String(ap.Gateway)
        THEN [ap |-> ap, err |-> nil]
        ELSE IF ~found \/ id # ap.recs[h].ID
        THEN [ap |-> ap, err |-> errAddressNotFound]
        ELSE IF ~ap.recs[h].InUse
        THEN [ap |-> ap, err |-> errAddressNotInUse]
        ELSE [ap |-> freeRecord(ap, h, key, asEpoch), err |-> nil]

\* addressPool.releaseAddress: the pool afterwards and the error; asEpoch is
\* ap.as.epoch, the epoch of the space that holds the pool.
releaseAddress(ap, asEpoch, address, options) ==
    LET id == options.OptAddressID
        byAddress == address # ""
        byId == address = "" /\ id # ""
        found == \/ byAddress /\ address \in DOMAIN ap.Addresses
                 \/ byId /\ id \in DOMAIN ap.addrsByID
        h == IF byAddress THEN ap.Addresses[address] ELSE ap.addrsByID[id]
        key == IF byAddress THEN address ELSE String(ap.recs[h].Addr)
    IN  IF byAddress /\ ~found /\ address = String(ap.Gateway)
        THEN [ap |-> ap, err |-> nil]
        ELSE IF ~found \/ (id # "" /\ id # ap.recs[h].ID)
        THEN [ap |-> ap, err |-> errAddressNotFound]
        ELSE IF ~ap.recs[h].InUse
        THEN [ap |-> ap, err |-> errAddressNotInUse]
        ELSE [ap |-> freeRecord(ap, h, key, asEpoch), err |-> nil]

---------------------------------------------------------------------------
(* addressSpace.getPool, requestPool, releasePool, getAddressPool          *)

\* The options of a pool request; a nil map reads as "" everywhere.
PoolOptions(nwName, overlay, ifName) ==
    [OptNetworkName |-> nwName, OptOverlayNetwork |-> overlay,
     OptInterfaceName |-> ifName]

\* Lines 312-314: every address of the subnet, in order.
ipList(subnet) == [i \in 1..subnet.Size |-> subnet.IP + (i - 1)]

\* Mutant of reservedIndex: the last address of the list is not reserved.
reservedIndexFirstTwo(index, lastIndex) == index = 0 \/ index = 1

\* Line 324: the first, second and last address of the list are reserved.
reservedIndex(index, lastIndex) == index = 0 \/ index = 1 \/ index = lastIndex

\* addressPool.populateIPAddresses: the records of an overlay pool.
RECURSIVE populateFrom(_, _, _)
populateFrom(ap, list, i) ==
    IF i > Len(list) THEN ap
    ELSE LET r  == newAddressRecord(ap, list[i])
             id == String(list[i])
         IN  IF r.err # nil THEN r.ap
             ELSE populateFrom(
                    IF reservedIndex(i - 1, Len(list) - 1)
                    THEN [r.ap EXCEPT !.recs[r.ap.Addresses[id]].InUse = TRUE]
                    ELSE r.ap,
                    list, i + 1)

populateIPAddresses(ap, subnet) == populateFrom(ap, ipList(subnet), 1)

\* addressSpace.getPool: the space afterwards, the id of the pool found or
\* created (found = FALSE for a nil pool) and the error.
\* The error of newAddressPool is assigned to a variable that shadows the
\* one getPool returns, so the pool that exists is returned without an error.
getPool(as, poolId, options) ==
    LET nwName == options.OptNetworkName
        none(e) == [as |-> as, found |-> FALSE, id |-> "", err |-> e]
        some(k) == [as |-> as, found |-> TRUE, id |-> k, err |-> nil]
    IN  IF poolId \in DOMAIN as.Pools THEN some(poolId)
        ELSE IF nwName = "" THEN none(nil)
        ELSE IF (poolId \o nwName) \in DOMAIN as.Pools THEN some(poolId \o nwName)
        ELSE IF options.OptOverlayNetwork = "" THEN none(errAddressPoolNotFound)
        ELSE IF ~ParseCIDR(poolId).ok THEN none(errInvalidPoolId)
        ELSE LET r == newAddressPool(as, "", nwName, 0, ParseCIDR(poolId).ipnet)
             IN  IF r.err # nil
                 THEN [as |-> r.as, found |-> TRUE, id |-> r.ap.Id, err |-> nil]
                 ELSE [as    |-> [r.as EXCEPT !.Pools[r.ap.Id] =
                                     populateIPAddresses(r.ap, r.ap.Subnet)],
                       found |-> TRUE, id |-> r.ap.Id, err |-> nil]

\* Lines 387-403: the pools an any-pool request does not skip.
matchesRequirements(pool, ifName, v6) ==
    /\ ~isInUse(pool)
    /\ pool.IsIPv6 = v6
    /\ ~(ifName # "" /\ ifName # pool.IfName)

\* Lines 407-422: the pool preferred after looking at one more candidate.
preferPool(ap, pool) ==
    LET byPriority == IF pool.Priority > ap.Priority THEN pool ELSE ap
    IN  IF Cardinality(DOMAIN pool.Addresses) > Cardinality(DOMAIN byPriority.Addresses)
        THEN pool ELSE byPriority

\* The loop of lines 384-423 over the candidates in the order `order`.
RECURSIVE selectPool(_, _, _)
selectPool(as, order, i) ==
    IF i = 1 THEN as.Pools[order[1]]
    ELSE preferPool(selectPool(as, order, i - 1), as.Pools[order[i]])

\* The orders in which a Go map of the keys S can be ranged over.
Orders(S) ==
    {o \in [1..Cardinality(S) -> S] : \A i, j \in DOMAIN o : i # j => o[i] # o[j]}

\* Lines 430-436: the reference is taken and the pool returned; logging the
\* id of a nil pool dereferences a nil pointer.
takePool(as, found, id, err) ==
    IF ~found THEN [as |-> as, err |-> panic, ret |-> ""]
    ELSE [as  |-> [as EXCEPT !.Pools[id].RefCount = @ + 1],
          err |-> err, ret |-> id]

\* addressSpace.requestPool: the possible outcomes, each the space afterwards,
\* the error and the id of the pool returned.
requestPool(as, poolId, options, v6) ==
    IF poolId # ""
    THEN LET r == getPool(as, poolId, options)
         IN  IF r.err # nil THEN {[as |-> as, err |-> r.err, ret |-> ""]}
             ELSE {takePool(r.as, r.found, r.id, nil)}
    ELSE LET cand == {pk \in DOMAIN as.Pools :
                        matchesRequirements(as.Pools[pk], options.OptInterfaceName, v6)}
         IN  IF cand = {}
             THEN {takePool(as, FALSE, "", errNoAvailableAddressPools)}
             ELSE {takePool(as, TRUE, selectPool(as, o, Len(o)).Id, nil) : o \in Orders(cand)}

\* Mutant of releaseDeletesPool: the test of the reference count is inverted.
releaseDeletesPoolReferenced(ap, as) == ap.epoch < as.epoch /\ isInUse(ap)

\* Line 462: a released pool is deleted when it is stale and unreferenced.
releaseDeletesPool(ap, as) == ap.epoch < as.epoch /\ ~isInUse(ap)

\* Mutant of releasePool: the reference is taken off before the pool is
\* found not to be in use.
releasePoolCountsFirst(as, poolId) ==
    IF poolId \notin DOMAIN as.Pools THEN [as |-> as, err |-> errAddressPoolNotFound]
    ELSE IF ~isInUse(as.Pools[poolId])
    THEN [as |-> [as EXCEPT !.Pools[poolId].RefCount = @ - 1], err |-> errAddressPoolNotInUse]
    ELSE LET ap == [as.Pools[poolId] EXCEPT !.RefCount = @ - 1]
         IN  [as  |-> IF releaseDeletesPool(ap, as)
                      THEN [as EXCEPT !.Pools = Restrict(@, DOMAIN @ \ {poolId})]
                      ELSE [as EXCEPT !.Pools[poolId] = ap],
              err |-> nil]

\* addressSpace.releasePool: the space afterwards and the error.
releasePool(as, poolId) ==
    IF poolId \notin DOMAIN as.Pools THEN [as |-> as, err |-> errAddressPoolNotFound]
    ELSE IF ~isInUse(as.Pools[poolId]) THEN [as |-> as, err |-> errAddressPoolNotInUse]
    ELSE LET ap == [as.Pools[poolId] EXCEPT !.RefCount = @ - 1]
         IN  [as  |-> IF releaseDeletesPool(ap, as)
                      THEN [as EXCEPT !.Pools = Restrict(@, DOMAIN @ \ {poolId})]
                      ELSE [as EXCEPT !.Pools[poolId] = ap],
              err |-> nil]

\* addressSpace.getAddressPool
getAddressPool(as, poolId) ==
    IF poolId \notin DOMAIN as.Pools
    THEN [found |-> FALSE, err |-> errInvalidPoolId]
    ELSE [found |-> TRUE, err |-> nil]

\* Mutant of getInfo: the records in use are counted as available.
getInfoCountsInUse(ap) ==
    LET unhealthy == {ak \in DOMAIN ap.Addresses : Rec(ap, ak).unhealthy}
    IN  {[Subnet         |-> ap.Subnet,
          Gateway        |-> ap.Gateway,
          DnsServers     |-> <<"168.63.129.16">>,
          UnhealthyAddrs |-> [i \in DOMAIN order |-> Rec(ap, order[i]).Addr],
          IsIPv6         |-> ap.IsIPv6,
          Available      |-> Cardinality({ak \in DOMAIN ap.Addresses : Rec(ap, ak).InUse}),
          Capacity       |-> Cardinality(DOMAIN ap.Addresses)] :
         order \in Orders(unhealthy)}

\* addressPool.getInfo: the AddressPoolInfo returned, one for every order in
\* which the loop over the map ap.Addresses may append the unhealthy
\* addresses.
getInfo(ap) ==
    LET unhealthy == {ak \in DOMAIN ap.Addresses : Rec(ap, ak).unhealthy}
    IN  {[Subnet         |-> ap.Subnet,
          Gateway        |-> ap.Gateway,
          DnsServers     |-> <<"168.63.129.16">>,
          UnhealthyAddrs |-> [i \in DOMAIN order |-> Rec(ap, order[i]).Addr],
          IsIPv6         |-> ap.IsIPv6,
          Available      |-> Cardinality({ak \in DOMAIN ap.Addresses : ~Rec(ap, ak).InUse}),
          Capacity       |-> Cardinality(DOMAIN ap.Addresses)] :
         order \in Orders(unhealthy)}

---------------------------------------------------------------------------
(* addressPoolId: the pool id on the wire between the plugin and its       *)
(* clients.  A Go string is the sequence of its characters here, so that   *)
(* strings.Split and fmt.Sprintf work on the characters they work on.      *)

\* The longest field of a pool id and the longest string a client sends.
MaxFieldLen == 2
MaxWireLen == 4

Pipe == "|"
Chars == {"a", Pipe}

\* The strings over Chars of length at most n.
StringsUpTo(n) == UNION {[1..k -> Chars] : k \in 0..n}

\* The addressPoolId values NewAddressPoolId builds (lines 92-98).
NewAddressPoolId(asId, subnet, childSubnet) ==
    [AsId |-> asId, Subnet |-> subnet, ChildSubnet |-> childSubnet]

PoolIds ==
    {NewAddressPoolId(a, s, c) : a \in StringsUpTo(MaxFieldLen),
                                 s \in StringsUpTo(MaxFieldLen),
                                 c \in StringsUpTo(MaxFieldLen)}

\* strings.Split(s, "|"): the substrings between the pipes, in order; a
\* string without a pipe (the empty one included) is its only substring.
RECURSIVE Split(_)
Split(s) ==
    IF \A i \in 1..Len(s) : s[i] # Pipe THEN <<s>>
    ELSE LET i == CHOOSE j \in 1..Len(s) :
                      s[j] = Pipe /\ \A k \in 1..(j - 1) : s[k] # Pipe
         IN  <<SubSeq(s, 1, i - 1)>> \o Split(SubSeq(s, i + 1, Len(s)))

\* Mutant of NewAddressPoolIdFromString: the third substring is never read.
NewAddressPoolIdFromStringNoChild(s) ==
    LET p == Split(s)
    IN  IF Len(p) > 3 THEN [ok |-> FALSE, err |-> errInvalidPoolId]
        ELSE [ok  |-> TRUE,
              pid |-> NewAddressPoolId(p[1], IF Len(p) >= 2 THEN p[2] ELSE <<>>, <<>>),
              err |-> nil]

\* NewAddressPoolIdFromString: the pool id a string denotes, or the error.
NewAddressPoolIdFromString(s) ==
    LET p == Split(s)
    IN  IF Len(p) > 3 THEN [ok |-> FALSE, err |-> errInvalidPoolId]
        ELSE [ok  |-> TRUE,
              pid |-> NewAddressPoolId(p[1],
                                       IF Len(p) >= 2 THEN p[2] ELSE <<>>,
                                       IF Len(p) = 3 THEN p[3] ELSE <<>>),
              err |-> nil]

\* addressPoolId.String
PoolIdString(pid) ==
    LET s == pid.AsId \o <<Pipe>> \o pid.Subnet
    IN  IF pid.ChildSubnet # <<>> THEN s \o <<Pipe>> \o pid.ChildSubnet ELSE s

---------------------------------------------------------------------------
(* The state machine: the operations of the address manager on the local   *)
(* address space, each executed as a whole under the manager's lock.       *)

\* The calls of the clients: requestPool <<poolId, options, v6>>,
\* releasePool poolId, requestAddress and releaseAddress
\* <<poolId, address, options>>.
UnknownPrefix == "10.0.0.24/29"

RequestPoolCalls ==
    {<<"", PoolOptions("", "", i), FALSE>> : i \in {"", "eth1"}}
        \cup {<<"", PoolOptions("", "", ""), TRUE>>}
        \cup {<<q, PoolOptions("", "", ""), FALSE>> : q \in FabricPrefixes \cup {UnknownPrefix}}

ReleasePoolCalls == FabricPrefixes \cup {UnknownPrefix}

RequestAddressCalls ==
    UNION {{<<q, a, AddressOptions(id, "")>> :
                a \in FabricAddrs(q) \cup {"", "10.0.0.9"}, id \in Ids \cup {""}}
           \cup {<<q, "", AddressOptions(id, OptAddressTypeGateway)>> : id \in {"", "x"}} :
           q \in FabricPrefixes}
        \cup {<<UnknownPrefix, "", AddressOptions("x", "")>>}

ReleaseAddressCalls ==
    UNION {{<<q, a, AddressOptions(id, "")>> :
                a \in FabricAddrs(q) \cup {"", String(GenerateAddress(Cidrs[q], defaultGatewayHostId))},
                id \in Ids \cup {""}} :
           q \in FabricPrefixes}
        \cup {<<UnknownPrefix, "", AddressOptions("x", "")>>}

HasSpace == LocalDefaultAddressSpaceId \in DOMAIN AddrSpaces
local == AddrSpaces[LocalDefaultAddressSpaceId]

\* What `last` holds after a call that returned without an error.
Done(op) == [op |-> op]

Init ==
    /\ AddrSpaces = EmptyMap
    /\ last = Done("init")
    /\ source = newAzureSource
    /\ now = queryInterval
    /\ pc = "idle"

\* The source publishes snapshot newas, built by refresh from a document.
SetAddressSpace(newas) ==
    LET spaces == setAddressSpace(AddrSpaces, newas)
    IN  /\ spaces[newas.Id].epoch <= MaxEpoch
        /\ AddrSpaces' = spaces
        /\ last' = Done("setAddressSpace")
        /\ UNCHANGED <<source, now, pc>>

\* A client call that fails or panics changes nothing: the step stutters.
RequestPool(poolId, options, v6) ==
    /\ HasSpace
    /\ \E r \in requestPool(local, poolId, options, v6) :
          /\ \A pk \in DOMAIN r.as.Pools : r.as.Pools[pk].RefCount <= MaxRefCount
          /\ IF r.err = nil
             THEN /\ AddrSpaces' = [AddrSpaces EXCEPT ![local.Id] = r.as]
                  /\ last' = Done("requestPool")
                  /\ UNCHANGED <<source, now, pc>>
             ELSE /\ r.as = local
                  /\ UNCHANGED vars

ReleasePool(poolId) ==
    /\ HasSpace
    /\ LET r == releasePool(local, poolId)
       IN  IF r.err = nil
           THEN /\ AddrSpaces' = [AddrSpaces EXCEPT ![local.Id] = r.as]
                /\ last' = Done("releasePool")
                /\ UNCHANGED <<source, now, pc>>
           ELSE /\ r.as = local
                /\ UNCHANGED vars

RequestAddress(poolId, address, options) ==
    /\ HasSpace
    /\ IF ~getAddressPool(local, poolId).found
       THEN UNCHANGED vars
       ELSE \E r \in requestAddress(local.Pools[poolId], address, options) :
               IF r.err = nil
               THEN /\ AddrSpaces' = [AddrSpaces EXCEPT ![local.Id].Pools[poolId] = r.ap]
                    /\ last' = Done("requestAddress")
                    /\ UNCHANGED <<source, now, pc>>
               ELSE /\ r.ap = local.Pools[poolId]
                    /\ UNCHANGED vars

ReleaseAddress(poolId, address, options) ==
    /\ HasSpace
    /\ IF ~getAddressPool(local, poolId).found
       THEN UNCHANGED vars
       ELSE LET r == releaseAddress(local.Pools[poolId], local.epoch, address, options)
            IN  IF r.err = nil
                THEN /\ AddrSpaces' = [AddrSpaces EXCEPT ![local.Id].Pools[poolId] = r.ap]
                     /\ last' = Done("releaseAddress")
                     /\ UNCHANGED <<source, now, pc>>
                ELSE /\ r.ap = local.Pools[poolId]
                     /\ UNCHANGED vars

Next ==
    \/ \E newas \in Snapshots : SetAddressSpace(newas)
    \/ \E c \in RequestPoolCalls : RequestPool(c[1], c[2], c[3])
    \/ \E poolId \in ReleasePoolCalls : ReleasePool(poolId)
    \/ \E c \in RequestAddressCalls : RequestAddress(c[1], c[2], c[3])
    \/ \E c \in ReleaseAddressCalls : ReleaseAddress(c[1], c[2], c[3])

Spec == Init /\ [][Next]_vars

\* The manager with an overlay network: a client creates the pool of the
\* overlay subnet through requestPool, next to the pools of the fabric.
OverlayId == OverlayPrefix \o "n"
OverlayOptions == PoolOptions("n", "yes", "")

OverlaySnapshots ==
    {refresh(newAzureSource, queryInterval, Answer(nil, nil, nil, Document(doc))).local :
        doc \in {d \in Docs :
            /\ Cardinality(DOMAIN d) <= 1
            /\ \A q \in DOMAIN d : d[q] \subseteq {"10.0.0.2"}}}

OverlayRequestPoolCalls ==
    {<<q, OverlayOptions, FALSE>> : q \in {OverlayPrefix, UnknownPrefix}}
        \cup {<<"", PoolOptions("", "", ""), FALSE>>}

OverlayReleasePoolCalls == {OverlayId} \cup FabricPrefixes

OverlayRequestAddressCalls ==
    {<<OverlayId, "", AddressOptions("x", "")>>,
     <<OverlayId, "10.0.0.18", AddressOptions("", "")>>,
     <<"10.0.0.0/29", "", AddressOptions("x", "")>>}

OverlayReleaseAddressCalls ==
    {<<OverlayId, "", AddressOptions("x", "")>>,
     <<OverlayId, "10.0.0.18", AddressOptions("", "")>>,
     <<OverlayId, "10.0.0.16", AddressOptions("", "")>>,
     <<"10.0.0.0/29", "", AddressOptions("x", "")>>}

NextOverlay ==
    \/ \E newas \in OverlaySnapshots : SetAddressSpace(newas)
    \/ \E c \in OverlayRequestPoolCalls : RequestPool(c[1], c[2], c[3])
    \/ \E poolId \in OverlayReleasePoolCalls : ReleasePool(poolId)
    \/ \E c \in OverlayRequestAddressCalls : RequestAddress(c[1], c[2], c[3])
    \/ \E c \in OverlayReleaseAddressCalls : ReleaseAddress(c[1], c[2], c[3])

SpecOverlay == Init /\ [][NextOverlay]_vars

\* The pool ids on the wire: the plugin builds a pool id and formats it for
\* a response, a client sends a string, and the plugin parses what a request
\* carries.  `last` holds the call that returned last, with its results.
InitPoolId ==
    /\ AddrSpaces = EmptyMap
    /\ last \in {[op |-> "NewAddressPoolId", pid |-> pid] : pid \in PoolIds}
            \cup {[op |-> "request", PoolID |-> s] : s \in StringsUpTo(MaxWireLen)}
    /\ source = newAzureSource
    /\ now = queryInterval
    /\ pc = "idle"

\* The response of the plugin carries pid.String().
FormatPoolId ==
    /\ last.op = "NewAddressPoolId"
    /\ last' = [op |-> "String", pid |-> last.pid, PoolID |-> PoolIdString(last.pid)]
    /\ UNCHANGED <<AddrSpaces, source, now, pc>>

\* The plugin parses the pool id of a request.
ParsePoolId ==
    /\ last.op \in {"String", "request"}
    /\ last' = [op |-> "NewAddressPoolIdFromString", from |-> last,
                r |-> NewAddressPoolIdFromString(last.PoolID)]
    /\ UNCHANGED <<AddrSpaces, source, now, pc>>

NextPoolId == FormatPoolId \/ ParsePoolId

SpecPoolId == InitPoolId /\ [][NextPoolId]_vars

\* The manager with its source.  A refresh runs at the time the clock shows
\* and is answered by the host and the fabric; when it publishes into a
\* space the manager knows, setAddressSpace merges in two steps, the two
\* loops of merge, and takes no lock (lines 157-175), while the calls of
\* the clients run as a whole under the lock of the manager.
MaxTime == 6

\* The documents of the fabric: the first interface of the host with its
\* own address and one or two more, with a document interface no interface
\* of the host matches, with an address outside its subnet, with its subnet
\* listed a second time (by an interface with the MAC address "*", or by the
\* same interface), the second interface of the host, and no interface.
SourceDocs ==
    LET addr(a, p) == [Address |-> a, IsPrimary |-> p]
        sub(q, as) == [Prefix |-> q, IPAddress |-> as]
        if(mac, p, subs) == [MacAddress |-> mac, IsPrimary |-> p, IPSubnet |-> subs]
        eth0(as) == if(<<"0", "A", "0", "1">>, TRUE, <<sub("10.0.0.0/29", as)>>)
        own == addr("10.0.0.4", TRUE)
        a2 == addr("10.0.0.2", FALSE)
        a3 == addr("10.0.0.3", FALSE)
    IN  {[Interface |-> ifs] : ifs \in
            {<<>>,
             <<eth0(<<own, a2, a3>>)>>,
             <<eth0(<<own, a3>>)>>,
             <<eth0(<<own, a2>>),
               if(<<"0", "a", "0", "3">>, FALSE, <<sub("10.0.0.8/29", <<addr("10.0.0.9", FALSE)>>)>>)>>,
             <<eth0(<<addr("10.0.0.9", FALSE)>>)>>,
             <<eth0(<<own, a2>>), if(<<"*">>, FALSE, <<sub("10.0.0.0/29", <<a3>>)>>)>>,
             <<if(<<"0", "A", "0", "1">>, TRUE,
                  <<sub("10.0.0.0/29", <<own, a2>>), sub("10.0.0.0/29", <<a3>>)>>)>>,
             <<if(<<"0", "a", "0", "2">>, FALSE,
                  <<sub("10.0.0.8/29", <<addr("10.0.0.12", TRUE), addr("10.0.0.10", FALSE)>>)>>)>>}}

\* What a refresh may be answered: a document, or one of the three errors.
Answers ==
    {Answer(nil, nil, nil, doc) : doc \in SourceDocs}
        \cup {Answer("errInterfaces", nil, nil, [Interface |-> <<>>]),
              Answer(nil, "errGet", nil, [Interface |-> <<>>]),
              Answer(nil, nil, "errDecode", [Interface |-> <<>>])}

\* Mutant of Locked: the mutex is never held.
LockedNever == FALSE

\* The mutex of the manager (specification, section 5): the publishing of a
\* snapshot holds it from the call of setAddressSpace until it returns, and
\* every call of a client holds it for its full duration.
Locked == pc = "cleanup"

\* A second passes.
Tick ==
    /\ now < MaxTime
    /\ now' = now + 1
    /\ UNCHANGED <<AddrSpaces, last, source, pc>>

\* azureSource.refresh, and of the setAddressSpace it calls lines 158-163 up
\* to the end of the first loop of merge.  `last` holds the outcome.
Refresh(answer) ==
    /\ ~Locked
    /\ LET r == refresh(source, now, answer)
       IN  /\ source' = r.s
           /\ last' = [op |-> "refresh", answer |-> answer, skipped |-> r.skipped,
                       publish |-> r.publish, local |-> r.local, err |-> r.err]
           /\ IF ~r.publish THEN UNCHANGED <<AddrSpaces, pc>>
              ELSE IF r.local.Id \notin DOMAIN AddrSpaces
              THEN /\ AddrSpaces' = (r.local.Id :> r.local) @@ AddrSpaces
                   /\ UNCHANGED pc
              ELSE /\ mergeAdd(AddrSpaces[r.local.Id], r.local).epoch <= MaxEpoch
                   /\ AddrSpaces' = [AddrSpaces EXCEPT ![r.local.Id] = mergeAdd(@, r.local)]
                   /\ pc' = "cleanup"
    /\ UNCHANGED now

\* The second loop of merge and the rest of setAddressSpace.
Cleanup ==
    /\ pc = "cleanup"
    /\ AddrSpaces' = [AddrSpaces EXCEPT ![local.Id] = mergeCleanup(@)]
    /\ pc' = "idle"
    /\ last' = Done("setAddressSpace")
    /\ UNCHANGED <<source, now>>

\* A client asks for the information on a pool; `last` holds the answer.
GetPoolInfo(poolId) ==
    /\ HasSpace
    /\ getAddressPool(local, poolId).found
    /\ \E info \in getInfo(local.Pools[poolId]) :
          last' = [op |-> "getPoolInfo", info |-> info]
    /\ UNCHANGED <<AddrSpaces, source, now, pc>>

NextSource ==
    \/ Tick
    \/ \E answer \in Answers : Refresh(answer)
    \/ Cleanup
    \/ (~Locked /\ GetPoolInfo("10.0.0.0/29"))
    \/ (~Locked /\ RequestAddress("10.0.0.0/29", "", AddressOptions("x", "")))
    \/ (~Locked /\ ReleaseAddress("10.0.0.0/29", "", AddressOptions("x", "")))

SpecSource == Init /\ [][NextSource]_vars

---------------------------------------------------------------------------
(* The CNI plugin: ipamPlugin.Add (src/cni/ipam/ipam.go)                   *)

\* addressManager.RequestAddress, which delegates (specification, section
\* 4.1) to the pool of the space: the space afterwards, the error and the
\* address returned, in CIDR notation.
amRequestAddress(as, poolId, address, options) ==
    IF ~getAddressPool(as, poolId).found
    THEN {[as |-> as, err |-> getAddressPool(as, poolId).err, ret |-> ""]}
    ELSE {[as  |-> [as EXCEPT !.Pools[poolId] = r.ap], err |-> r.err, ret |-> r.ret] :
             r \in requestAddress(as.Pools[poolId], address, options)}

\* addressManager.ReleaseAddress, which delegates likewise and hands the
\* address to the pool as it got it.
amReleaseAddress(as, poolId, address, options) ==
    IF ~getAddressPool(as, poolId).found
    THEN [as |-> as, err |-> getAddressPool(as, poolId).err]
    ELSE LET r == releaseAddress(as.Pools[poolId], as.epoch, address, options)
         IN  [as |-> [as EXCEPT !.Pools[poolId] = r.ap], err |-> r.err]

\* The deferred functions of Add (lines 170-175 and 191-196) when Add returns
\* an error, the last deferred first: the address is released if one was
\* allocated, then the pool if one was requested.  Their errors are dropped.
addCleanup(as, subnet, address, poolID) ==
    LET a == IF address # "" THEN amReleaseAddress(as, subnet, address, AddressOptions("", "")).as
             ELSE as
    IN  IF poolID # "" THEN releasePool(a, poolID).as ELSE a

\* ipamPlugin.Add on space as, for the configuration nwCfg (Subnet, Address,
\* Master), the endpoint id of args, and the outcome versionErr of
\* result.GetAsVersion: the space afterwards, the error, and the address and
\* the pool that this Add allocated.
Add(as, nwCfg, endpointId, versionErr) ==
    LET pooled == IF nwCfg.Subnet = ""
                  THEN requestPool(as, "", PoolOptions("", "", nwCfg.Master), FALSE)
                  ELSE {[as |-> as, err |-> nil, ret |-> ""]}
        out(s, e, address, poolID) ==
            [as |-> s, err |-> e, address |-> address, poolID |-> poolID]
        after(p) ==
            LET subnet == IF nwCfg.Subnet = "" THEN p.ret ELSE nwCfg.Subnet
                step(a) ==
                    IF a.err # nil
                    THEN out(addCleanup(a.as, subnet, "", p.ret), a.err, "", p.ret)
                    ELSE IF ~getAddressPool(a.as, subnet).found
                    THEN out(addCleanup(a.as, subnet, a.ret, p.ret),
                             getAddressPool(a.as, subnet).err, a.ret, p.ret)
                    ELSE IF versionErr # nil
                    THEN out(addCleanup(a.as, subnet, a.ret, p.ret), versionErr, a.ret, p.ret)
                    ELSE out(a.as, nil, a.ret, p.ret)
            IN  IF p.err # nil THEN {out(p.as, p.err, "", "")}
                ELSE {step(a) : a \in amRequestAddress(p.as, subnet, nwCfg.Address,
                                                       AddressOptions(endpointId, ""))}
    IN  UNION {after(p) : p \in pooled}

---------------------------------------------------------------------------
(* Properties.  Each is stated over every reachable state of the manager   *)
(* and every input of the operation it is about: the operation is applied  *)
(* to the state and its outcome is examined.                               *)

\* The pools of the live space and the address keys of a pool.
LivePools == IF HasSpace THEN DOMAIN local.Pools ELSE {}
Keys(ap) == DOMAIN ap.Addresses

\* The keys of the records of ap that are in use.
InUseKeys(ap) == {ak \in Keys(ap) : Rec(ap, ak).InUse}

\* The keys of the in-use records of ap that carry id.
HeldBy(ap, id) == {ak \in InUseKeys(ap) : Rec(ap, ak).ID = id}

\* Whether merging snapshot newas advances the epoch of space as.
Advances(as, newas) == merge(as, newas).epoch > as.epoch

\* The address requests that do not ask for the gateway.
PlainRequests ==
    {c \in RequestAddressCalls : c[3].OptAddressType # OptAddressTypeGateway}

\* C1: merge never removes a record that is in use: every record in use
\* before a merge is afterwards still in the same pool, in use and under
\* the same id, and that pool is still in the space.
C1_MergeKeepsInUse ==
    \A newas \in Snapshots : \A pk \in LivePools :
        \A ak \in InUseKeys(local.Pools[pk]) :
            LET after == merge(local, newas)
            IN  /\ pk \in DOMAIN after.Pools
                /\ ak \in Keys(after.Pools[pk])
                /\ Rec(after.Pools[pk], ak).InUse
                /\ Rec(after.Pools[pk], ak).ID = Rec(local.Pools[pk], ak).ID

\* A merge has swept a pool whose record was held under an id and kept it.
C1_Witness ==
    /\ last.op = "setAddressSpace"
    /\ \E pk \in LivePools : \E ak \in InUseKeys(local.Pools[pk]) :
          /\ Rec(local.Pools[pk], ak).unhealthy
          /\ Rec(local.Pools[pk], ak).ID \in Ids
          /\ \E newas \in Snapshots :
                /\ pk \notin DOMAIN newas.Pools
                /\ Advances(local, newas)

\* C2: no double allocation: a successful non-gateway requestAddress never
\* returns an address whose record is in use under another id or under the
\* empty id; a request for a specific in-use address with an empty or a
\* different id fails with errAddressInUse; and the scan of an any-address
\* request only picks a record that is not in use.
C2_NoDoubleAllocation ==
    \A c \in PlainRequests :
        c[1] \in LivePools =>
            LET ap == local.Pools[c[1]]
                address == c[2]
                id == c[3].OptAddressID
            IN  \A r \in requestAddress(ap, address, c[3]) :
                  /\ r.err = nil =>
                        \A ak \in InUseKeys(ap) :
                            r.ret = CidrString(ap, Rec(ap, ak).Addr) =>
                                /\ Rec(ap, ak).ID = id
                                /\ id # ""
                  /\ (/\ address \in InUseKeys(ap)
                      /\ (id = "" \/ id # Rec(ap, address).ID))
                        => r.err = errAddressInUse
                  /\ (/\ address = ""
                      /\ id \notin DOMAIN ap.addrsByID
                      /\ r.err = nil)
                        => \E ak \in Keys(ap) \ InUseKeys(ap) :
                              r.ret = CidrString(ap, Rec(ap, ak).Addr)

\* A request has handed out the second address of a pool while the first
\* one is held under another id, and a request for it under a third
\* party's id is refused.
C2_Witness ==
    /\ last.op = "requestAddress"
    /\ \E pk \in LivePools :
          /\ HeldBy(local.Pools[pk], "x") # {}
          /\ HeldBy(local.Pools[pk], "y") # {}
          /\ \E ak \in HeldBy(local.Pools[pk], "x") :
                \A r \in requestAddress(local.Pools[pk], ak, AddressOptions("y", "")) :
                    r.err = errAddressInUse

\* C3: idempotent request: when a requestAddress with a non-empty id x
\* succeeds, the same call repeated at once succeeds too, returns the same
\* CIDR string and leaves exactly one in-use record with id x in the pool.
C3_IdempotentRequest ==
    \A c \in PlainRequests :
        (c[1] \in LivePools /\ c[3].OptAddressID # "") =>
            \A r1 \in requestAddress(local.Pools[c[1]], c[2], c[3]) :
                r1.err = nil =>
                    \A r2 \in requestAddress(r1.ap, c[2], c[3]) :
                        /\ r2.err = nil
                        /\ r2.ret = r1.ret
                        /\ Cardinality(HeldBy(r2.ap, c[3].OptAddressID)) = 1

\* The records of pool pk that are in use and that snapshot newas no longer
\* lists.
Unlisted(as, newas, pk) ==
    {ak \in InUseKeys(as.Pools[pk]) : <<pk, ak>> \notin Listing(newas)}

\* What C4 says of address ak of pool pk after the merge that gave `after`:
\* the record is still there, in use and unhealthy, its pool exists, and a
\* release of it that succeeds removes the record.
KeptUnhealthy(after, pk, ak) ==
    /\ pk \in DOMAIN after.Pools
    /\ ak \in InUseKeys(after.Pools[pk])
    /\ Rec(after.Pools[pk], ak).unhealthy
    /\ \A id \in Ids \cup {""} :
          LET r == releaseAddress(after.Pools[pk], after.epoch, ak, AddressOptions(id, ""))
          IN  r.err = nil => ak \notin Keys(r.ap)

\* C4 as stated: if address A is in use in pool P and a merged snapshot no
\* longer lists A, then after the merge A is still a record of P, in use
\* and unhealthy, P exists, and the next successful release of A removes
\* the record.
C4_UnlistedInUseBecomesUnhealthy ==
    \A newas \in Snapshots : \A pk \in LivePools :
        \A ak \in Unlisted(local, newas, pk) :
            KeptUnhealthy(merge(local, newas), pk, ak)

\* C4 as amended: the same, for a merge that advances the epoch of the
\* space; and in every state a record that is in use and unhealthy is
\* removed by a release of it that succeeds.
C4_StaleInUseBecomesUnhealthy ==
    /\ \A newas \in Snapshots : \A pk \in LivePools :
          \A ak \in Unlisted(local, newas, pk) :
              Advances(local, newas) => KeptUnhealthy(merge(local, newas), pk, ak)
    /\ \A pk \in LivePools : \A ak \in InUseKeys(local.Pools[pk]) :
          Rec(local.Pools[pk], ak).unhealthy => KeptUnhealthy(local, pk, ak)

\* A merge has just marked a held record unhealthy, its pool lists another
\* record that the snapshot confirmed, and the holder's release succeeds.
C4_Witness ==
    /\ last.op = "setAddressSpace"
    /\ \E pk \in LivePools : \E ak \in InUseKeys(local.Pools[pk]) :
          /\ Rec(local.Pools[pk], ak).unhealthy
          /\ \E bk \in Keys(local.Pools[pk]) :
                Rec(local.Pools[pk], bk).epoch = local.epoch
          /\ releaseAddress(local.Pools[pk], local.epoch, ak,
                            AddressOptions(Rec(local.Pools[pk], ak).ID, "")).err = nil

\* The pools of the space that hold no in-use record and no reference and
\* that snapshot newas does not contain.
Dropped(as, newas) ==
    {pk \in DOMAIN as.Pools :
        /\ InUseKeys(as.Pools[pk]) = {}
        /\ as.Pools[pk].RefCount = 0
        /\ pk \notin DOMAIN newas.Pools}

\* C5 as stated: a pool with no in-use record and no reference that a merged
\* snapshot does not contain is no longer in the space after the merge,
\* whatever the snapshot.
C5_DroppedPoolDisappears ==
    HasSpace => \A newas \in Snapshots : \A pk \in Dropped(local, newas) :
        pk \notin DOMAIN merge(local, newas).Pools

\* C5 as amended: the same, for a merge that advances the epoch of the space.
C5_StalePoolDisappears ==
    HasSpace => \A newas \in Snapshots : \A pk \in Dropped(local, newas) :
        Advances(local, newas) => pk \notin DOMAIN merge(local, newas).Pools

\* A merge that did not list the first subnet has just removed its pool:
\* the space is at a later epoch and holds only the other pool.
C5_Witness ==
    /\ last.op = "setAddressSpace"
    /\ HasSpace
    /\ local.epoch > 0
    /\ "10.0.0.0/29" \notin LivePools
    /\ \E pk \in LivePools : local.Pools[pk].epoch = local.epoch

\* The pools of the space that hold a reference and that snapshot newas does
\* not contain.
Referenced(as, newas) ==
    {pk \in DOMAIN as.Pools :
        as.Pools[pk].RefCount > 0 /\ pk \notin DOMAIN newas.Pools}

\* Whether releasePool of pool pk of space as succeeds and deletes the pool.
ReleaseCollects(as, pk) ==
    /\ releasePool(as, pk).err = nil
    /\ pk \notin DOMAIN releasePool(as, pk).as.Pools

\* C6 as stated: a pool with a reference that a merged snapshot does not
\* contain still exists after the merge, and the releasePool that brings its
\* reference count to zero deletes it from the space.
C6_ReferencedPoolCollected ==
    HasSpace => \A newas \in Snapshots : \A pk \in Referenced(local, newas) :
        LET after == merge(local, newas)
        IN  /\ pk \in DOMAIN after.Pools
            /\ after.Pools[pk].RefCount = 1 => ReleaseCollects(after, pk)

\* C6 as amended: the pool still exists after the merge with its reference
\* count unchanged; the releasePool that brings the count to zero deletes it
\* exactly when the pool's epoch is older than the space's, which is the
\* case after a merge that advanced the epoch while the pool held no record
\* in use, and is not the case when the pool held a record in use.
C6_StaleReferencedPoolCollected ==
    HasSpace =>
      /\ \A newas \in Snapshots : \A pk \in Referenced(local, newas) :
            LET after == merge(local, newas)
            IN  /\ pk \in DOMAIN after.Pools
                /\ after.Pools[pk].RefCount = local.Pools[pk].RefCount
                /\ (/\ after.Pools[pk].RefCount = 1
                    /\ Advances(local, newas))
                      => (ReleaseCollects(after, pk)
                            <=> InUseKeys(local.Pools[pk]) = {})
      /\ \A pk \in LivePools :
            local.Pools[pk].RefCount = 1 =>
                /\ releasePool(local, pk).err = nil
                /\ ReleaseCollects(local, pk) <=> local.Pools[pk].epoch < local.epoch

\* A merge has just left a pool behind that holds one reference and no
\* record, at an epoch older than the space's, and releasePool deletes it.
C6_Witness ==
    /\ last.op = "setAddressSpace"
    /\ \E pk \in LivePools :
          /\ local.Pools[pk].RefCount = 1
          /\ local.Pools[pk].epoch < local.epoch
          /\ ReleaseCollects(local, pk)

\* C7: release is inverse: after a merge of a snapshot that lists address a,
\* a request for a under id x that succeeds is undone by the release of a
\* under x: the release succeeds, a remains a record of the pool, not in
\* use, and a request for a succeeds again; for pools the snapshot found in
\* the space and for pools the merge adopted.
C7_ReleaseIsInverse ==
    HasSpace => \A newas \in Snapshots : \A pa \in Listing(newas) : \A id \in Ids :
        LET after == merge(local, newas)
            opts  == AddressOptions(id, "")
        IN  \A r1 \in requestAddress(after.Pools[pa[1]], pa[2], opts) :
              r1.err = nil =>
                LET rel == releaseAddress(r1.ap, after.epoch, pa[2], opts)
                IN  /\ rel.err = nil
                    /\ pa[2] \in Keys(rel.ap)
                    /\ ~Rec(rel.ap, pa[2]).InUse
                    /\ \A r2 \in requestAddress(rel.ap, pa[2], opts) : r2.err = nil

\* Whether snapshot newas lists a pool that space as does not hold, or a
\* record of a pool that it holds.
Observed(as, newas) ==
    \E pk \in DOMAIN newas.Pools :
        pk \notin DOMAIN as.Pools \/ Keys(newas.Pools[pk]) # {}

\* C8 as stated: the epoch of the space is strictly greater after a merge if
\* and only if the snapshot listed a pool or a record; otherwise it is
\* unchanged.
C8_EpochAdvancesIffListed ==
    HasSpace => \A newas \in Snapshots :
        LET after == merge(local, newas)
        IN  /\ after.epoch > local.epoch <=> DOMAIN newas.Pools # {}
            /\ DOMAIN newas.Pools = {} => after.epoch = local.epoch

\* C8 as amended: the epoch is strictly greater (by one) if and only if the
\* snapshot listed a pool that the space did not hold or a record of a pool
\* that it held; otherwise it is unchanged.
C8_EpochAdvancesIffObserved ==
    HasSpace => \A newas \in Snapshots :
        LET after == merge(local, newas)
        IN  /\ after.epoch > local.epoch <=> Observed(local, newas)
            /\ Observed(local, newas) => after.epoch = local.epoch + 1
            /\ ~Observed(local, newas) => after.epoch = local.epoch

\* Merges have advanced the epoch, and some snapshot lists only pools the
\* space holds, without a record: merging it would leave the epoch alone.
C8_Witness ==
    /\ last.op = "setAddressSpace"
    /\ local.epoch > 0
    /\ \E newas \in Snapshots :
          /\ DOMAIN newas.Pools # {}
          /\ ~Observed(local, newas)
          /\ merge(local, newas).epoch = local.epoch

\* C9: in every reachable state, after any sequence of setAddressSpace,
\* requestPool, releasePool, requestAddress and releaseAddress, the epoch of
\* every pool of the space is at most the epoch of the space.
C9_PoolEpochAtMostSpaceEpoch ==
    \A pk \in LivePools : local.Pools[pk].epoch <= local.epoch

\* The space has advanced, it holds the overlay pool a client created and a
\* referenced pool of the fabric that is older than the space.
C9_Witness ==
    /\ HasSpace
    /\ local.epoch > 0
    /\ OverlayId \in LivePools
    /\ \E pk \in LivePools : local.Pools[pk].epoch < local.epoch

\* C10: for every pool and every entry k -> V of its addrsByID, V is the
\* record its Addresses holds under V's address string, and V.ID = k.
C10_AddrsByIDConsistent ==
    \A pk \in LivePools :
        LET ap == local.Pools[pk]
        IN  \A k \in DOMAIN ap.addrsByID :
              LET h == ap.addrsByID[k]
              IN  /\ h \in DOMAIN ap.recs
                  /\ String(ap.recs[h].Addr) \in Keys(ap)
                  /\ ap.Addresses[String(ap.recs[h].Addr)] = h
                  /\ ap.recs[h].ID = k

\* A release has just removed one holder's entry while another holder's
\* record, which a merge marked unhealthy, is still indexed under its id.
C10_Witness ==
    /\ last.op = "releaseAddress"
    /\ \E pk \in LivePools : \E k \in DOMAIN local.Pools[pk].addrsByID :
          /\ local.Pools[pk].recs[local.Pools[pk].addrsByID[k]].unhealthy
          /\ Cardinality(Keys(local.Pools[pk])) = 2
          /\ Cardinality(InUseKeys(local.Pools[pk])) = 1

\* The pool ids a client may name in releasePool.
ReleasablePoolIds == ReleasePoolCalls \cup OverlayReleasePoolCalls

\* C11: every pool has RefCount >= 0; releasePool of an unknown pool id fails
\* with errAddressPoolNotFound and releasePool of a pool with RefCount = 0
\* fails with errAddressPoolNotInUse, both leaving the space as it is; a
\* releasePool that succeeds decreases the RefCount of that pool by exactly
\* one (or deletes the pool, whose last reference it was) and touches no
\* other pool.
C11_RefCountNeverNegative ==
    HasSpace =>
      /\ \A pk \in LivePools : local.Pools[pk].RefCount >= 0
      /\ \A poolId \in ReleasablePoolIds :
            LET r == releasePool(local, poolId)
            IN  /\ poolId \notin LivePools =>
                      r.err = errAddressPoolNotFound /\ r.as = local
                /\ (poolId \in LivePools /\ local.Pools[poolId].RefCount = 0) =>
                      r.err = errAddressPoolNotInUse /\ r.as = local
                /\ (poolId \in LivePools /\ local.Pools[poolId].RefCount > 0) =>
                      /\ r.err = nil
                      /\ \A pk \in LivePools \ {poolId} :
                            pk \in DOMAIN r.as.Pools /\ r.as.Pools[pk] = local.Pools[pk]
                      /\ IF poolId \in DOMAIN r.as.Pools
                         THEN r.as.Pools[poolId] =
                                [local.Pools[poolId] EXCEPT !.RefCount = @ - 1]
                         ELSE local.Pools[poolId].RefCount = 1

\* A releasePool has just returned a pool's only reference and the pool is
\* still in the space: a second releasePool of it fails, and so does the
\* releasePool of a pool id the space does not hold.
C11_Witness ==
    /\ last.op = "releasePool"
    /\ \E pk \in LivePools :
          /\ local.Pools[pk].RefCount = 0
          /\ releasePool(local, pk).err = errAddressPoolNotInUse
    /\ \E poolId \in ReleasablePoolIds :
          releasePool(local, poolId).err = errAddressPoolNotFound

\* Whether address ip is one of the addresses of the subnet, by its range.
Inside(subnet, ip) == ip \in subnet.IP..(subnet.IP + subnet.Size - 1)

\* C12: for every pool P and every record R of P.Addresses, R.Addr lies
\* inside P.Subnet (and is stored under its own string), in the pools that
\* snapshots install, that merge adopts records into and that requestPool
\* populates for an overlay network; newAddressRecord, through which all of
\* them create records, accepts an address exactly when it lies inside the
\* subnet and is not yet a record, and otherwise leaves the pool alone.
C12_RecordsInsideSubnet ==
    \A pk \in LivePools :
        LET ap == local.Pools[pk]
        IN  /\ \A ak \in Keys(ap) :
                  /\ Inside(ap.Subnet, Rec(ap, ak).Addr)
                  /\ String(Rec(ap, ak).Addr) = ak
            /\ \A addr \in IPs \cup {NilIP} :
                  LET r == newAddressRecord(ap, addr)
                  IN  IF Inside(ap.Subnet, addr) /\ String(addr) \notin Keys(ap)
                      THEN /\ r.err = nil
                           /\ Keys(r.ap) = Keys(ap) \cup {String(addr)}
                           /\ Rec(r.ap, String(addr)).Addr = addr
                      ELSE r.err # nil /\ r.ap = ap

\* The space holds a populated overlay pool and a pool of the fabric with a
\* record that a merge confirmed or adopted.
C12_Witness ==
    /\ OverlayId \in LivePools
    /\ Cardinality(Keys(local.Pools[OverlayId])) = Cidrs[OverlayPrefix].Size
    /\ \E pk \in LivePools \ {OverlayId} : \E ak \in Keys(local.Pools[pk]) :
          Rec(local.Pools[pk], ak).epoch > 0

\* The pool ids a client may name in requestPool, and the network names.
RequestablePoolIds == FabricPrefixes \cup {OverlayPrefix, UnknownPrefix}
OptionalNetworkNames == NetworkNames \cup {""}

\* Whether poolId, alone or followed by network name nwName, names no pool
\* of the space.
MatchesNoPool(as, poolId, nwName) ==
    /\ poolId \notin DOMAIN as.Pools
    /\ (poolId \o nwName) \notin DOMAIN as.Pools

\* C13: requestPool with a non-empty pool id that matches no pool of the
\* space, called without the overlay-network option, with or without a
\* network name, returns errAddressPoolNotFound, does not crash and changes
\* no state.
C13_UnknownPoolNotFound ==
    HasSpace =>
      \A poolId \in RequestablePoolIds : \A nwName \in OptionalNetworkNames :
        MatchesNoPool(local, poolId, nwName) =>
            \A r \in requestPool(local, poolId, PoolOptions(nwName, "", ""), FALSE) :
                r.err = errAddressPoolNotFound /\ r.as = local

\* What C14 says of outcome r of a requestPool of poolId with network name
\* nwName on space as: a new pool for the CIDR is in the space, with one
\* record for every address of the CIDR, returned with RefCount = 1, and
\* the other pools are as before.
SynthesizedPool(as, poolId, nwName, r) ==
    /\ r.err = nil
    /\ r.ret \notin DOMAIN as.Pools
    /\ r.ret \in DOMAIN r.as.Pools
    /\ r.as.Pools[r.ret].Subnet = Cidrs[poolId]
    /\ r.as.Pools[r.ret].RefCount = 1
    /\ Keys(r.as.Pools[r.ret]) =
          {String(ip) : ip \in {i \in IPs : Inside(Cidrs[poolId], i)}}
    /\ \A pk \in DOMAIN as.Pools :
          pk \in DOMAIN r.as.Pools /\ r.as.Pools[pk] = as.Pools[pk]
    /\ DOMAIN r.as.Pools = DOMAIN as.Pools \cup {r.ret}

\* C14: requestPool with a non-empty pool id that matches no pool and that
\* parses as a CIDR, called with the overlay-network option, with or without
\* a network name, synthesizes a new pool for that CIDR with one record for
\* every address of the CIDR, adds it to the space and returns it with
\* RefCount = 1.
C14_OverlayPoolSynthesized ==
    HasSpace =>
      \A poolId \in DOMAIN Cidrs : \A nwName \in OptionalNetworkNames :
        MatchesNoPool(local, poolId, nwName) =>
            \A r \in requestPool(local, poolId, PoolOptions(nwName, "yes", ""), FALSE) :
                SynthesizedPool(local, poolId, nwName, r)

\* The strings of the first, second and last address of a subnet.
Reserved(subnet) ==
    {String(subnet.IP), String(subnet.IP + 1), String(subnet.IP + subnet.Size - 1)}

\* The non-gateway address requests on pool ap: for any address or one of
\* its records, under an id or none.
RequestsOf(ap) ==
    {<<a, AddressOptions(id, "")>> : a \in Keys(ap) \cup {""}, id \in Ids \cup {""}}

\* C15: in an overlay pool synthesized from a CIDR with at least four
\* addresses exactly the first, second and last address are in use and every
\* other address is free; from a /30 exactly one address, the third, can be
\* obtained by requestAddress, and a further request under another id or
\* none fails with errNoAvailableAddresses.
C15_OverlayReservations ==
    HasSpace =>
      \A poolId \in {q \in DOMAIN Cidrs : Cidrs[q].Size >= 4} :
        MatchesNoPool(local, poolId, "n") =>
          \A r \in requestPool(local, poolId, OverlayOptions, FALSE) :
            LET ap    == r.as.Pools[r.ret]
                third == CidrString(ap, Cidrs[poolId].IP + 2)
            IN  /\ Cardinality(Keys(ap)) = Cidrs[poolId].Size
                /\ InUseKeys(ap) = Reserved(Cidrs[poolId])
                /\ Cidrs[poolId].Size = 4 =>
                     /\ \E q \in requestAddress(ap, "", AddressOptions("x", "")) :
                            q.err = nil
                     /\ \A c \in RequestsOf(ap) : \A q \in requestAddress(ap, c[1], c[2]) :
                          q.err = nil =>
                            /\ q.ret = third
                            /\ \A id \in (Ids \cup {""}) \ (Ids \cap {c[2].OptAddressID}) :
                                 \A q2 \in requestAddress(q.ap, "", AddressOptions(id, "")) :
                                    q2.err = errNoAvailableAddresses

\* A requestPool has just synthesized the overlay pool of the /30: its
\* first, second and last address are in use and it holds one reference.
C15_Witness ==
    /\ last.op = "requestPool"
    /\ OverlayId \in LivePools
    /\ local.Pools[OverlayId].RefCount = 1
    /\ Cardinality(Keys(local.Pools[OverlayId])) = 4
    /\ InUseKeys(local.Pools[OverlayId]) = Reserved(Cidrs[OverlayPrefix])

\* The any-pool requests: an interface name or none, and the v6 flag.
AnyPoolRequests == {<<ifName, v6>> : ifName \in {"", "eth0", "eth1"}, v6 \in BOOLEAN}

\* The pools of space as that pass the three filters of an any-pool request.
Candidates(as, ifName, v6) ==
    {pk \in DOMAIN as.Pools :
        /\ as.Pools[pk].RefCount = 0
        /\ as.Pools[pk].IsIPv6 = v6
        /\ (ifName # "" => as.Pools[pk].IfName = ifName)}

\* What C16 says of a successful outcome r: the pool returned passed the
\* filters, its RefCount is now 1 and nothing else changed.
TookCandidate(as, ifName, v6, r) ==
    /\ r.err = nil
    /\ r.ret \in Candidates(as, ifName, v6)
    /\ r.as = [as EXCEPT !.Pools[r.ret].RefCount = 1]

\* C16: requestPool with an empty pool id returns only a pool that had
\* RefCount = 0, whose IsIPv6 is the requested flag and whose IfName is the
\* requested interface when one is named, and raises its RefCount to 1; when
\* no pool satisfies the three conditions it fails with
\* errNoAvailableAddressPools and changes no RefCount.
C16_AnyPoolRequest ==
    HasSpace =>
      \A c \in AnyPoolRequests :
        \A r \in requestPool(local, "", PoolOptions("", "", c[1]), c[2]) :
            IF Candidates(local, c[1], c[2]) # {}
            THEN TookCandidate(local, c[1], c[2], r)
            ELSE r.err = errNoAvailableAddressPools /\ r.as = local

\* The number of records of pool pk of space as.
Capacity(as, pk) == Cardinality(Keys(as.Pools[pk]))

\* C17: requestPool with an empty pool id returns, among the pools that pass
\* the filters, one of maximal priority, and among those of maximal priority
\* one with the largest number of addresses: a candidate of lower priority is
\* never chosen over one of higher priority, whatever the order in which the
\* pools are enumerated.
C17_HighestPriorityWins ==
    HasSpace =>
      \A c \in AnyPoolRequests :
        \A r \in requestPool(local, "", PoolOptions("", "", c[1]), c[2]) :
          r.err = nil =>
            \A pk \in Candidates(local, c[1], c[2]) :
              /\ local.Pools[pk].Priority <= local.Pools[r.ret].Priority
              /\ local.Pools[pk].Priority = local.Pools[r.ret].Priority
                    => Capacity(local, pk) <= Capacity(local, r.ret)

\* The ids of the clients that exhaust a pool: one more than Ids.
ExhaustIds == Ids \cup {"z"}

\* The sequences of n pairwise distinct elements of S.
DistinctSeqs(S, n) ==
    {s \in [1..n -> S] : \A i, j \in 1..n : i # j => s[i] # s[j]}

\* The runs of any-address requests on a pool under the ids of a sequence,
\* one after the other: each run is the pool afterwards and the sequences of
\* the strings and of the errors returned.
RECURSIVE requestAll(_, _)
requestAll(run, ids) ==
    IF ids = <<>> THEN {run}
    ELSE UNION {requestAll([ap   |-> q.ap,
                            rets |-> Append(run.rets, q.ret),
                            errs |-> Append(run.errs, q.err)], Tail(ids)) :
                q \in requestAddress(run.ap, "", AddressOptions(Head(ids), ""))}

\* The CIDR strings of the records of ap that are not in use.
FreeCidrs(ap) == {CidrString(ap, Rec(ap, ak).Addr) : ak \in Keys(ap) \ InUseKeys(ap)}

\* C18: exhaustion: in a pool with k free records, k any-address requests
\* under pairwise distinct non-empty ids that hold no record of the pool all
\* succeed and return k pairwise distinct addresses, and one more
\* any-address request under a further such id fails with
\* errNoAvailableAddresses.
C18_Exhaustion ==
    \A pk \in LivePools :
        LET ap   == local.Pools[pk]
            k    == Cardinality(FreeCidrs(ap))
            elig == {id \in ExhaustIds : HeldBy(ap, id) = {}}
        IN  \A ids \in DistinctSeqs(elig, k + 1) :
              \A run \in requestAll([ap |-> ap, rets |-> <<>>, errs |-> <<>>], ids) :
                /\ \A i \in 1..k : run.errs[i] = nil
                /\ {run.rets[i] : i \in 1..k} = FreeCidrs(ap)
                /\ run.errs[k + 1] = errNoAvailableAddresses
                /\ FreeCidrs(run.ap) = {}

\* A release has left a pool with two free records and none in use: two
\* requests under x and y take them and a third under z finds none.
C18_Witness ==
    /\ last.op = "releaseAddress"
    /\ \E pk \in LivePools :
          /\ Cardinality(FreeCidrs(local.Pools[pk])) = 2
          /\ \E run \in requestAll([ap |-> local.Pools[pk], rets |-> <<>>, errs |-> <<>>],
                                   <<"x", "y", "z">>) :
                run.errs = <<nil, nil, errNoAvailableAddresses>>

\* What C19 says of pool ap in a space at epoch asEpoch, for a gateway
\* request under id: it returns the gateway with the pool's mask and leaves
\* the pool as it is, and the release of the gateway address afterwards,
\* under the same id or none, succeeds and leaves the pool as it is.
GatewayRoundTrip(ap, asEpoch, id) ==
    \A q \in requestAddress(ap, "", AddressOptions(id, OptAddressTypeGateway)) :
        /\ q.err = nil
        /\ q.ret = CidrString(ap, ap.Gateway)
        /\ q.ap = ap
        /\ \A id2 \in {"", id} :
              LET rel == releaseAddress(q.ap, asEpoch, String(ap.Gateway),
                                        AddressOptions(id2, ""))
              IN  rel.err = nil /\ rel.ap = ap

\* C19: gateway round trip: requestAddress with an empty address and the
\* gateway address type returns the pool's gateway with the pool's mask and
\* changes no state of the pool, even under an id; releasing the gateway
\* address afterwards succeeds and changes no state, for the pools of the
\* fabric and for overlay pools alike.
C19_GatewayRoundTrip ==
    \A pk \in LivePools : \A id \in Ids \cup {""} :
        GatewayRoundTrip(local.Pools[pk], local.epoch, id)

\* The releaseAddress calls on pool ap: for one of its records, its gateway,
\* an address it does not hold or none, under an id or none.
ReleasesOf(ap) ==
    {<<a, id>> : a \in Keys(ap) \cup {"", String(ap.Gateway), "10.0.0.30"},
                 id \in ExhaustIds \cup {""}}

\* Whether releaseAddress(address, {id}) selects a record of ap, and its key.
Selects(ap, address, id) ==
    IF address # "" THEN address \in Keys(ap)
    ELSE id # "" /\ id \in DOMAIN ap.addrsByID

SelectedKey(ap, address, id) ==
    IF address # "" THEN address ELSE String(ap.recs[ap.addrsByID[id]].Addr)

\* What C20 says of a release that succeeds on the record under key: the id
\* the record carried has no addrsByID entry, the record is no longer in use
\* under any id, and every other record is untouched.
Released(ap, key, after) ==
    /\ Rec(ap, key).ID # "" => Rec(ap, key).ID \notin DOMAIN after.addrsByID
    /\ key \in Keys(after) => (Rec(after, key).ID = "" /\ ~Rec(after, key).InUse)
    /\ Keys(after) \in {Keys(ap), Keys(ap) \ {key}}
    /\ \A ak \in Keys(ap) \ {key} : Rec(after, ak) = Rec(ap, ak)

\* C20: releaseAddress fails with errAddressNotFound when no record is
\* selected (an address that is neither a record nor the gateway, an id
\* without entry, or neither address nor id) or when a non-empty id differs
\* from the id of the selected record; it fails with errAddressNotInUse when
\* the selected record is free and the id check passed; failures change
\* nothing; on success the addrsByID entry is removed and the record's ID
\* and InUse are cleared.
C20_ReleaseAddressErrors ==
    \A pk \in LivePools :
      LET ap == local.Pools[pk]
      IN  \A c \in ReleasesOf(ap) :
            LET address == c[1]
                id  == c[2]
                r   == releaseAddress(ap, local.epoch, address, AddressOptions(id, ""))
            IN  IF ~Selects(ap, address, id)
                THEN IF address = String(ap.Gateway)
                     THEN r.err = nil /\ r.ap = ap
                     ELSE r.err = errAddressNotFound /\ r.ap = ap
                ELSE LET key == SelectedKey(ap, address, id)
                     IN  IF id # "" /\ id # Rec(ap, key).ID
                         THEN r.err = errAddressNotFound /\ r.ap = ap
                         ELSE IF ~Rec(ap, key).InUse
                         THEN r.err = errAddressNotInUse /\ r.ap = ap
                         ELSE r.err = nil /\ Released(ap, key, r.ap)

\* A release has just freed a record that stays in the pool while another
\* record is held under x: releasing the free record again fails with
\* errAddressNotInUse and releasing the held one under y with
\* errAddressNotFound.
C20_Witness ==
    /\ last.op = "releaseAddress"
    /\ \E pk \in LivePools :
          /\ HeldBy(local.Pools[pk], "x") # {}
          /\ \E ak \in Keys(local.Pools[pk]) \ InUseKeys(local.Pools[pk]) :
                releaseAddress(local.Pools[pk], local.epoch, ak,
                               AddressOptions("", "")).err = errAddressNotInUse
          /\ \E ak \in HeldBy(local.Pools[pk], "x") :
                releaseAddress(local.Pools[pk], local.epoch, ak,
                               AddressOptions("y", "")).err = errAddressNotFound


---------------------------------------------------------------------------
\* C21: looking up a pool id the space does not hold, as get_pool_info,
\* request_address and release_address do through getAddressPool, yields
\* errAddressPoolNotFound.
C21_UnknownPoolLookupNotFound ==
    HasSpace =>
        \A poolId \in RequestablePoolIds \ DOMAIN local.Pools :
            LET r == getAddressPool(local, poolId)
            IN  ~r.found /\ r.err = errAddressPoolNotFound


---------------------------------------------------------------------------
\* C22: a mutating operation, set_address_space included, returns success
\* only if the state was written to the store: when the write fails the
\* operation returns an error, and the mutation in memory is kept.
C22_StoreFailureSurfaced ==
    \A newas \in Snapshots, saveErr \in SaveOutcomes :
        LET r == setAddressSpaceReturn(AddrSpaces, newas, saveErr)
        IN  /\ r.spaces = setAddressSpace(AddrSpaces, newas)
            /\ r.err = nil => saveErr = nil


---------------------------------------------------------------------------
\* The number of pipe characters of a string, and the pool ids none of whose
\* fields holds one.
Pipes(s) == Cardinality({i \in 1..Len(s) : s[i] = Pipe})
ValidPoolId(pid) == Pipes(pid.AsId) + Pipes(pid.Subnet) + Pipes(pid.ChildSubnet) = 0

\* C23: parsing the string a pool id without pipes in its fields was
\* formatted to yields that pool id again, also when its subnet or child
\* subnet is empty; a string with three or more pipes is rejected with
\* errInvalidPoolId.
C23_PoolIdRoundTrip ==
    last.op = "NewAddressPoolIdFromString" =>
        /\ (last.from.op = "String" /\ ValidPoolId(last.from.pid)) =>
               /\ last.r.ok /\ last.r.err = nil
               /\ last.r.pid = last.from.pid
        /\ Pipes(last.from.PoolID) >= 3 =>
               ~last.r.ok /\ last.r.err = errInvalidPoolId

\* A pool id with an empty subnet and a child subnet made the round trip.
C23_Witness ==
    /\ last.op = "NewAddressPoolIdFromString"
    /\ last.from.op = "String"
    /\ ValidPoolId(last.from.pid)
    /\ last.from.pid.Subnet = <<>>
    /\ last.from.pid.ChildSubnet # <<>>
    /\ last.r.ok


---------------------------------------------------------------------------
\* C25: after the state is saved and loaded again on restart, the epoch of
\* every space, pool and record and the unhealthy flag of every record are
\* what they were before, and a release of an address after the restart
\* removes or keeps the record as it would have without the restart.
C25_RestoreKeepsEpochs ==
    LET restored == restore(save(AddrSpaces))
    IN  \A k \in DOMAIN AddrSpaces :
            /\ restored[k].epoch = AddrSpaces[k].epoch
            /\ \A pk \in DOMAIN AddrSpaces[k].Pools :
                  LET ap == AddrSpaces[k].Pools[pk]
                      bp == restored[k].Pools[pk]
                  IN  /\ bp.epoch = ap.epoch
                      /\ \A ak \in Keys(ap) :
                            /\ Rec(bp, ak).epoch = Rec(ap, ak).epoch
                            /\ Rec(bp, ak).unhealthy = Rec(ap, ak).unhealthy
                            /\ LET o == AddressOptions("", "")
                                   r == releaseAddress(ap, AddrSpaces[k].epoch, ak, o)
                                   s == releaseAddress(bp, restored[k].epoch, ak, o)
                               IN  /\ s.err = r.err
                                   /\ Keys(s.ap) = Keys(r.ap)


---------------------------------------------------------------------------
\* What C27 says of address ak of pool pk, whose record was `before`, after
\* the merge that gave `after`: the record is healthy and at the epoch of
\* the space, in use by the same id or free as before, and a release of it
\* that succeeds leaves it in the pool as a free record.
Reconfirmed(before, after, pk, ak) ==
    /\ pk \in DOMAIN after.Pools
    /\ ak \in Keys(after.Pools[pk])
    /\ LET ar == Rec(after.Pools[pk], ak)
       IN  /\ ~ar.unhealthy
           /\ ar.epoch = after.epoch
           /\ ar.InUse = before.InUse
           /\ ar.ID = before.ID
    /\ \A id \in Ids \cup {""} :
          LET r == releaseAddress(after.Pools[pk], after.epoch, ak, AddressOptions(id, ""))
          IN  r.err = nil => ak \in Keys(r.ap) /\ ~Rec(r.ap, ak).InUse

\* C27: if a record is unhealthy and a merged snapshot lists its address
\* again in the same pool, then after the merge the record is not unhealthy,
\* its epoch is the new epoch of the space, its in-use flag and id are
\* unchanged, and a release of it keeps it in the pool as a free record.
C27_RelistedBecomesHealthy ==
    \A newas \in Snapshots : \A pk \in LivePools : \A ak \in Keys(local.Pools[pk]) :
        (Rec(local.Pools[pk], ak).unhealthy /\ <<pk, ak>> \in Listing(newas)) =>
            LET after == merge(local, newas)
            IN  /\ after.epoch = local.epoch + 1
                /\ Reconfirmed(Rec(local.Pools[pk], ak), after, pk, ak)

\* A held record is unhealthy, a snapshot lists it again, the merge of that
\* snapshot is a step of the manager and the holder's release then succeeds.
C27_Witness ==
    /\ HasSpace
    /\ local.epoch < MaxEpoch
    /\ \E newas \in Snapshots : \E pk \in LivePools : \E ak \in InUseKeys(local.Pools[pk]) :
          /\ Rec(local.Pools[pk], ak).unhealthy
          /\ <<pk, ak>> \in Listing(newas)
          /\ LET after == merge(local, newas)
             IN  /\ ~Rec(after.Pools[pk], ak).unhealthy
                 /\ releaseAddress(after.Pools[pk], after.epoch, ak,
                                   AddressOptions(Rec(after.Pools[pk], ak).ID, "")).err = nil


---------------------------------------------------------------------------
\* C28: get_pool_info on a pool reports as capacity the number of its
\* records, as available the number of those not in use, and as unhealthy
\* exactly the addresses of the records whose unhealthy flag is set.
C28_PoolInfo ==
    \A pk \in LivePools :
        LET ap == local.Pools[pk]
            marked == {Rec(ap, ak).Addr : ak \in {k \in Keys(ap) : Rec(ap, k).unhealthy}}
        IN  \A info \in getInfo(ap) :
                /\ info.Capacity = Cardinality(Keys(ap))
                /\ info.Available = Cardinality(Keys(ap) \ InUseKeys(ap))
                /\ Range(info.UnhealthyAddrs) = marked
                /\ Len(info.UnhealthyAddrs) = Cardinality(marked)

\* The information on a pool that holds an unhealthy record in use next to
\* a free record.
C28_Witness ==
    \E pk \in LivePools : \E info \in getInfo(local.Pools[pk]) :
        /\ info.Capacity = 2
        /\ info.Available = 1
        /\ Len(info.UnhealthyAddrs) = 1


---------------------------------------------------------------------------
\* C24: if a refresh of the fabric source fails because the enumeration of
\* the interfaces, the HTTP query or the parsing of the document returns an
\* error, the next refresh call does its work again instead of returning
\* success without work: a refresh is skipped only when it follows, within
\* the minimum interval, a refresh whose query completed.
C24_FailedRefreshRetried ==
    [][(/\ last.op = "refresh"
        /\ ~last.skipped
        /\ {last.answer.interfacesErr, last.answer.getErr,
             last.answer.decodeErr} # {nil}
        /\ last'.op = "refresh")
       => ~last'.skipped]_vars


---------------------------------------------------------------------------
\* The address entries of a document, each with the position of its subnet,
\* the prefix of the subnet and whether its interface matched one of the
\* host's.
Entries(answer) ==
    {[matched |-> findInterface(answer.interfaces, answer.doc.Interface[k]).ifName # "",
      subnet  |-> <<k, j>>,
      Prefix  |-> answer.doc.Interface[k].IPSubnet[j].Prefix,
      a       |-> answer.doc.Interface[k].IPSubnet[j].IPAddress[m]] :
        <<k, j, m>> \in
            {t \in (DOMAIN answer.doc.Interface) \X (1..2) \X (1..3) :
                /\ t[2] \in DOMAIN answer.doc.Interface[t[1]].IPSubnet
                /\ t[3] \in DOMAIN answer.doc.Interface[t[1]].IPSubnet[t[2]].IPAddress}}

\* C29: a snapshot built by the fabric source holds no record for an
\* address that the document marks primary, and holds, in the pool of the
\* subnet, a record for every address not marked primary of every subnet of
\* every interface of the document that matched an interface of the host.
C29_SnapshotRecords ==
    (last.op = "refresh" /\ last.publish) =>
        \A e \in Entries(last.answer) :
            /\ e.a.IsPrimary =>
                   \A pk \in DOMAIN last.local.Pools :
                       e.a.Address \notin DOMAIN last.local.Pools[pk].Addresses
            /\ (e.matched /\ ~e.a.IsPrimary) =>
                   /\ e.Prefix \in DOMAIN last.local.Pools
                   /\ e.a.Address \in DOMAIN last.local.Pools[e.Prefix].Addresses

\* A snapshot published from a document with a matched interface that lists
\* a primary address before an address that is not, and a snapshot published
\* from a document with an interface that matched none of the host's.
C29_Witness ==
    /\ last.op = "refresh"
    /\ last.publish
    /\ \E e, f \in Entries(last.answer) :
           /\ e.matched /\ e.a.IsPrimary
           /\ f.matched /\ ~f.a.IsPrimary /\ f.Prefix = e.Prefix
           /\ f.a.Address \in DOMAIN last.local.Pools[f.Prefix].Addresses
    /\ \E e \in Entries(last.answer) : ~e.matched

\* C30: when the document lists a prefix more than once among the
\* interfaces that matched, refresh takes the collision on the pool as
\* benign: it returns no error, publishes the snapshot, and the pool holds
\* the addresses of every listing of the prefix.
C30_PoolCollisionBenign ==
    (/\ last.op = "refresh"
     /\ ~last.skipped
     /\ {last.answer.interfacesErr, last.answer.getErr, last.answer.decodeErr} = {nil}
     /\ \E e, f \in Entries(last.answer) :
            /\ e.matched /\ f.matched
            /\ e.Prefix = f.Prefix
            /\ e.subnet # f.subnet)
    => /\ last.err = nil
       /\ last.publish
       /\ \A e \in Entries(last.answer) :
              (e.matched /\ ~e.a.IsPrimary) =>
                  /\ e.Prefix \in DOMAIN last.local.Pools
                  /\ e.a.Address \in DOMAIN last.local.Pools[e.Prefix].Addresses

\* C26: setAddressSpace is atomic with respect to the calls of the clients.
\* From the end of the first loop of merge (pools and addresses adopted) to
\* the end of the second (stale ones swept) no call of a client returns and
\* nothing but the sweep changes the spaces, so that every behaviour is a
\* serial order of whole operations.
C26_SetAddressSpaceAtomic ==
    [][pc = "cleanup" =>
          \/ UNCHANGED <<AddrSpaces, last>>
          \/ /\ AddrSpaces' = [AddrSpaces EXCEPT ![local.Id] = mergeCleanup(@)]
             /\ last' = Done("setAddressSpace")
             /\ pc' = "idle"]_vars

\* A merge between its two loops, where the sweep is still to remove a
\* record of a pool on which the clients have calls to make.
C26_Witness ==
    /\ pc = "cleanup"
    /\ "10.0.0.0/29" \in DOMAIN local.Pools
    /\ "10.0.0.0/29" \in DOMAIN mergeCleanup(local).Pools
    /\ getInfo(mergeCleanup(local).Pools["10.0.0.0/29"])
           # getInfo(local.Pools["10.0.0.0/29"])

---------------------------------------------------------------------------
\* C31: when setAddressSpace is called with a snapshot and a netApi is
\* registered, AddExternalInterface is called once for every pool of the
\* snapshot, with the interface name and the subnet of the pool, whether the
\* snapshot creates the space or is merged into it.
C31_ExternalInterfacesNotified ==
    \A newas \in Snapshots :
        addExternalInterfaces(AddrSpaces, newas, "netApi")
            = {[pool |-> pk, IfName |-> newas.Pools[pk].IfName,
                Subnet |-> newas.Pools[pk].Subnet] : pk \in DOMAIN newas.Pools}

---------------------------------------------------------------------------
\* C32: CNI ADD cleans up on failure.  When Add returns an error after its
\* request for an address succeeded, the record it allocated is not in use
\* when Add returns, and the pool it requested has the reference count it
\* had before.
C32_AddCleansUp ==
    HasSpace =>
        \A s \in {"", "10.0.0.0/29"}, address \in {"", "10.0.0.2"}, id \in {"", "x"} :
            \A r \in Add(local, [Subnet |-> s, Address |-> address, Master |-> ""],
                         id, "errVersion") :
                (r.err \notin {nil, panic} /\ r.address # "") =>
                    \A pk \in DOMAIN local.Pools : \A ak \in Keys(local.Pools[pk]) :
                        (/\ CidrString(local.Pools[pk], Rec(local.Pools[pk], ak).Addr) = r.address
                         /\ ~Rec(local.Pools[pk], ak).InUse
                         /\ pk \in DOMAIN r.as.Pools)
                        => /\ r.as.Pools[pk].RefCount = local.Pools[pk].RefCount
                           /\ ak \in Keys(r.as.Pools[pk]) => ~Rec(r.as.Pools[pk], ak).InUse

---------------------------------------------------------------------------
\* C33: requestPool with the overlay-network option and a pool id that is a
\* CIDR too small to leave an address to allocate once the first, second
\* and last are reserved (a /31 or a /32) is rejected with errInvalidPoolId
\* and creates no pool.
C33_TinyOverlayRejected ==
    HasSpace =>
        \A poolId \in {q \in DOMAIN Cidrs : Cidrs[q].Size <= 2} :
            \A r \in requestPool(local, poolId, OverlayOptions, FALSE) :
                /\ r.err = errInvalidPoolId
                /\ r.as = local

---------------------------------------------------------------------------
\* C34: in every reachable state every record that is unhealthy is in use.
\* Hence a request for any address, which takes a record from the scan of
\* the free records, never returns an unhealthy address, and the release of
\* an unhealthy record, by its address or by its id, deletes it.
C34_UnhealthyInUse ==
    \A pk \in LivePools :
        LET ap == local.Pools[pk]
            marked == {ak \in Keys(ap) : Rec(ap, ak).unhealthy}
        IN  /\ \A ak \in marked : Rec(ap, ak).InUse
            /\ \A id \in (Ids \cup {""}) \ DOMAIN ap.addrsByID :
                   \A q \in requestAddress(ap, "", AddressOptions(id, "")) :
                       q.err = nil =>
                           \A ak \in marked : q.ret # CidrString(ap, Rec(ap, ak).Addr)
            /\ \A ak \in marked :
                   \A c \in {<<ak, "">>, <<ak, Rec(ap, ak).ID>>, <<"", Rec(ap, ak).ID>>} :
                       (c # <<"", "">> /\ (c[1] = "" => /\ c[2] \in DOMAIN ap.addrsByID
                                                        /\ ap.addrsByID[c[2]] = ap.Addresses[ak])) =>
                           LET r == releaseAddress(ap, local.epoch, c[1], AddressOptions(c[2], ""))
                           IN  r.err = nil /\ ak \notin Keys(r.ap)

\* A pool that holds an unhealthy record next to a free one, so that a
\* request for any address has a record to take.
C34_Witness ==
    \E pk \in LivePools :
        /\ \E ak \in Keys(local.Pools[pk]) : Rec(local.Pools[pk], ak).unhealthy
        /\ \E ak \in Keys(local.Pools[pk]) : ~Rec(local.Pools[pk], ak).InUse
        /\ \E q \in requestAddress(local.Pools[pk], "", AddressOptions("", "")) : q.err = nil

---------------------------------------------------------------------------
\* C35: within a pool at most one record in use carries any given non-empty
\* id, and every record in use with a non-empty id x is the record that
\* addrsByID[x] points to, so that a release by id x finds it.
C35_OneRecordPerId ==
    \A pk \in LivePools :
        LET ap == local.Pools[pk]
        IN  \A ak \in InUseKeys(ap) :
                Rec(ap, ak).ID # "" =>
                    /\ HeldBy(ap, Rec(ap, ak).ID) = {ak}
                    /\ Rec(ap, ak).ID \in DOMAIN ap.addrsByID
                    /\ ap.addrsByID[Rec(ap, ak).ID] = ap.Addresses[ak]
                    /\ releaseAddress(ap, local.epoch, "",
                                      AddressOptions(Rec(ap, ak).ID, "")).err = nil

---------------------------------------------------------------------------
\* C36: releasePool never deletes a pool that still holds a record in use:
\* in every reachable state a pool whose epoch is older than the epoch of
\* its space has an empty address table, and a releasePool that deletes a
\* pool deletes one without a record.
C36_StalePoolsEmpty ==
    \A pk \in LivePools :
        /\ local.Pools[pk].epoch < local.epoch => Keys(local.Pools[pk]) = {}
        /\ ReleaseCollects(local, pk) => Keys(local.Pools[pk]) = {}

\* The space holds a pool at an older epoch whose last reference is about
\* to be released, which deletes it, and a pool with a reference and a
\* record in use, which its release leaves in the space.
C36_Witness ==
    /\ \E pk \in LivePools :
          /\ local.Pools[pk].epoch < local.epoch
          /\ ReleaseCollects(local, pk)
    /\ \E pk \in LivePools :
          /\ InUseKeys(local.Pools[pk]) # {}
          /\ local.Pools[pk].RefCount = 1
          /\ releasePool(local, pk).err = nil
          /\ pk \in DOMAIN releasePool(local, pk).as.Pools

---------------------------------------------------------------------------
\* C37: every pool that a merged snapshot lists is a pool of the space after
\* the merge, whether or not the snapshot lists an address for it and
\* whatever other pools the snapshot holds.
C37_ListedPoolsExist ==
    HasSpace =>
        \A newas \in Snapshots : \A pk \in DOMAIN newas.Pools :
            pk \in DOMAIN merge(local, newas).Pools

---------------------------------------------------------------------------
\* C38: the merge of a snapshot of the fabric leaves the records of an
\* overlay pool that requestPool created (RefCount > 0) as they are: no free
\* address is deleted, no reserved address is marked unhealthy, and the
\* number of addresses to allocate is the same after the merge.
C38_OverlayPoolKeptByMerge ==
    (HasSpace /\ OverlayId \in LivePools /\ local.Pools[OverlayId].RefCount > 0) =>
        \A newas \in OverlaySnapshots :
            LET ap    == local.Pools[OverlayId]
                after == merge(local, newas)
            IN  /\ OverlayId \in DOMAIN after.Pools
                /\ Keys(after.Pools[OverlayId]) = Keys(ap)
                /\ \A ak \in Keys(ap) :
                      /\ Rec(after.Pools[OverlayId], ak).InUse = Rec(ap, ak).InUse
                      /\ Rec(after.Pools[OverlayId], ak).unhealthy = Rec(ap, ak).unhealthy
                /\ Cardinality(Keys(after.Pools[OverlayId]) \ InUseKeys(after.Pools[OverlayId]))
                      = Cardinality(Keys(ap) \ InUseKeys(ap))

---------------------------------------------------------------------------
\* C39: every requestPool, releasePool, requestAddress or releaseAddress
\* that returns an error leaves the whole state as it is: the pools, their
\* reference counts and epochs, every record and addrsByID.
C39_FailedCallChangesNothing ==
    HasSpace =>
        /\ \A c \in RequestPoolCalls \cup OverlayRequestPoolCalls
                      \cup {<<UnknownPrefix, PoolOptions("n", "", ""), FALSE>>} :
              \A r \in requestPool(local, c[1], c[2], c[3]) :
                  r.err \notin {nil, panic} => r.as = local
        /\ \A poolId \in ReleasablePoolIds :
              releasePool(local, poolId).err # nil => releasePool(local, poolId).as = local
        /\ \A pk \in LivePools :
              /\ \A c \in RequestAddressCalls \cup OverlayRequestAddressCalls :
                    \A r \in requestAddress(local.Pools[pk], c[2], c[3]) :
                        r.err # nil => r.ap = local.Pools[pk]
              /\ \A c \in ReleaseAddressCalls \cup OverlayReleaseAddressCalls :
                    LET r == releaseAddress(local.Pools[pk], local.epoch, c[2], c[3])
                    IN  r.err # nil => r.ap = local.Pools[pk]

\* A state in which a call of each of the four operations fails: a pool
\* without a reference, with a record in use under x and no free record.
C39_Witness ==
    /\ HasSpace
    /\ \E r \in requestPool(local, UnknownPrefix, PoolOptions("n", "", ""), FALSE) :
          r.err = errAddressPoolNotFound
    /\ \E pk \in LivePools :
          /\ releasePool(local, pk).err = errAddressPoolNotInUse
          /\ HeldBy(local.Pools[pk], "x") # {}
          /\ \E r \in requestAddress(local.Pools[pk], "", AddressOptions("y", "")) :
                r.err = errNoAvailableAddresses
          /\ releaseAddress(local.Pools[pk], local.epoch, "", AddressOptions("y", "")).err
                = errAddressNotFound

---------------------------------------------------------------------------
\* C40: releaseAddress of a specific address with an empty id succeeds on a
\* record held under any id x: there is no test of ownership.  It frees the
\* record and removes the addrsByID entry of x.  Only an id that is not
\* empty and differs from the id of the holder is rejected.
C40_ReleaseByAddressUnowned ==
    \A pk \in LivePools :
        LET ap == local.Pools[pk]
        IN  \A ak \in InUseKeys(ap) : \A id \in Ids \cup {""} :
                LET x == Rec(ap, ak).ID
                    r == releaseAddress(ap, local.epoch, ak, AddressOptions(id, ""))
                IN  IF id # "" /\ id # x
                    THEN r.err = errAddressNotFound /\ r.ap = ap
                    ELSE /\ r.err = nil
                         /\ ak \in Keys(r.ap) =>
                                ~Rec(r.ap, ak).InUse /\ Rec(r.ap, ak).ID = ""
                         /\ x # "" => x \notin DOMAIN r.ap.addrsByID
                         /\ Keys(r.ap) \ {ak} = Keys(ap) \ {ak}

\* A pool with a record held under x and a record held under y: the release
\* of the first by its address succeeds without an id and fails under y.
C40_Witness ==
    \E pk \in LivePools : \E ak \in HeldBy(local.Pools[pk], "x") :
        /\ HeldBy(local.Pools[pk], "y") # {}
        /\ releaseAddress(local.Pools[pk], local.epoch, ak, AddressOptions("", "")).err = nil
        /\ releaseAddress(local.Pools[pk], local.epoch, ak, AddressOptions("y", "")).err
              = errAddressNotFound
===========================================================================
